---- MODULE Spec2Model ----
(***************************************************************************)
(* Model of the binary referral tree page of monkey-coin:                  *)
(*   - MyTree (src/pages/tree/MyTree.tsx): tree query, search highlight    *)
(*   - BinaryTreeView (src/components/tree/BinaryTreeView.tsx and the      *)
(*     later revision kept in src/components/tree/PackagePurchaseModal.tsx *)
(*     lines 1248-1759): layout, connectors, hover / tap / long-press.     *)
(* Pixel values are integers; JS strings are sequences of one-character    *)
(* strings; JS null / undefined are the records NULL / UNDEFINED; a        *)
(* missing number (null or undefined id) is 0.                             *)
(***************************************************************************)
EXTENDS Integers, Sequences, FiniteSets, TLC

\* ---------------------------------------------------------------- bounds
MaxNodes == 5
MaxQueryLen == 2
MaxPendingTimers == 2

\* HTTP calls one request of a caller may lead to before the model stops following it
MaxHttpCalls == 6

\* frames the call stack of the engine holds
MaxCallDepth == 4

\* largest amount, in dollars, typed into the purchase modal
MaxAmount == 3

\* ------------------------------------------------------ program constants
NODE_WIDTH == 100
NODE_HEIGHT == 105
HORIZONTAL_SPACING == 16
VERTICAL_SPACING == 50
CONNECTOR_RADIUS == 6
CANVAS_MARGIN == 80
START_MARGIN == 40
START_Y == 20

\* ------------------------------------------------------------ JS values
NULL == [tag |-> "null"]
UNDEFINED == [tag |-> "undefined"]
NO_ID == 0

\* `{} as TreeNode`: an object without any own property
EmptyObject == [tag |-> "object"]

\* !v for object-valued v
Falsy(v) == v = NULL \/ v = UNDEFINED

\* property read: a missing property reads as undefined
Prop(obj, name) == IF name \in DOMAIN obj THEN obj[name] ELSE UNDEFINED

\* node.id, 0 when the property is missing
IdOf(node) == IF "id" \in DOMAIN node THEN node.id ELSE NO_ID

Half(n) == n \div 2

Max(a, b) == IF a >= b THEN a ELSE b

\* --------------------------------------------------------------- strings
Whitespace == {" "}

LowerChar(c) == CASE c = "A" -> "a" [] c = "B" -> "b" [] OTHER -> c

toLowerCase(s) == [i \in 1..Len(s) |-> LowerChar(s[i])]

RECURSIVE trimStart(_)
trimStart(s) == IF s # <<>> /\ Head(s) \in Whitespace THEN trimStart(Tail(s)) ELSE s

RECURSIVE trimEnd(_)
trimEnd(s) == IF s # <<>> /\ s[Len(s)] \in Whitespace THEN trimEnd(SubSeq(s, 1, Len(s) - 1)) ELSE s

trim(s) == trimEnd(trimStart(s))

includes(s, sub) == \E i \in 0..(Len(s) - Len(sub)) : SubSeq(s, i + 1, i + Len(sub)) = sub

\* ------------------------------------------------------------ input sets
QueryChars == {"a", "B", " "}

RECURSIVE StringsUpTo(_)
StringsUpTo(n) == IF n = 0 THEN {<<>>} ELSE LET shorter == StringsUpTo(n - 1) IN shorter \cup {Append(s, c) : s \in shorter, c \in QueryChars}

Queries == StringsUpTo(MaxQueryLen)

\* member id and e-mail of the node with a given id
Profiles ==
  << [memberId |-> <<"A", "b">>, email |-> <<"b", "@", "a">>],
     [memberId |-> <<"A", "A">>, email |-> <<"a", "@", "a">>],
     [memberId |-> <<"B", "B">>, email |-> <<"B", "@", "b">>] >>

ProfileOf(id) == Profiles[(id % Len(Profiles)) + 1]

TreeNode(id, left, right) == [id |-> id, memberId |-> ProfileOf(id).memberId, email |-> ProfileOf(id).email, leftChild |-> left, rightChild |-> right]

\* well-formed trees with exactly n nodes whose root has id i (children 2i, 2i+1)
RECURSIVE TreesOfSize(_, _)
TreesOfSize(i, n) == IF n = 0 THEN {NULL} ELSE UNION { {TreeNode(i, l, r) : l \in TreesOfSize(2 * i, k), r \in TreesOfSize(2 * i + 1, n - 1 - k)} : k \in 0..(n - 1) }

Trees == UNION {TreesOfSize(1, n) : n \in 1..MaxNodes}

\* what GET /tree/user/:id may carry in response.data
ResponseData == Trees \cup {NULL}

\* ------------------------------------------------- MyTree.tsx: helpers
RECURSIVE countNodes(_)
countNodes(n) ==
  IF Falsy(n) THEN 0
  ELSE 1 + countNodes(Prop(n, "leftChild")) + countNodes(Prop(n, "rightChild"))

countBusinessVolume(node) ==
  IF Falsy(node) THEN [left |-> 0, right |-> 0]
  ELSE [left |-> countNodes(Prop(node, "leftChild")),
        right |-> countNodes(Prop(node, "rightChild"))]

\* node.memberId?.toLowerCase().includes(lowerQuery): falsy when the field is missing
FieldIncludes(node, field, lowerQuery) ==
  IF field \in DOMAIN node THEN includes(toLowerCase(node[field]), lowerQuery) ELSE FALSE

nodeMatchesSearch_CaseSensitive(node, query) ==
  IF Falsy(node) \/ trim(query) = <<>> THEN FALSE
  ELSE LET lowerQuery == trim(toLowerCase(query))
       IN  (IF "memberId" \in DOMAIN node THEN includes(node.memberId, lowerQuery) ELSE FALSE)
           \/ (IF "email" \in DOMAIN node THEN includes(node.email, lowerQuery) ELSE FALSE)

nodeMatchesSearch(node, query) ==
  IF Falsy(node) \/ trim(query) = <<>> THEN FALSE
  ELSE LET lowerQuery == trim(toLowerCase(query))
       IN  FieldIncludes(node, "memberId", lowerQuery) \/ FieldIncludes(node, "email", lowerQuery)

\* the inner `traverse` of findMatchingNodeIds; returns the ids it adds to `matches`
RECURSIVE traverse(_, _)
traverse(n, query) ==
  IF Falsy(n) THEN {}
  ELSE (IF nodeMatchesSearch(n, query) THEN {IdOf(n)} ELSE {})
       \cup traverse(Prop(n, "leftChild"), query)
       \cup traverse(Prop(n, "rightChild"), query)

RECURSIVE traverseUnguarded(_, _)
traverseUnguarded(n, query) ==
  IF Falsy(n) THEN {}
  ELSE (IF FieldIncludes(n, "memberId", trim(toLowerCase(query)))
           \/ FieldIncludes(n, "email", trim(toLowerCase(query)))
        THEN {IdOf(n)} ELSE {})
       \cup traverseUnguarded(Prop(n, "leftChild"), query)
       \cup traverseUnguarded(Prop(n, "rightChild"), query)

\* findMatchingNodeIds with the empty-query guards dropped
findMatchingNodeIds_NoGuard(node, query) == traverseUnguarded(node, query)

findMatchingNodeIds(node, query) ==
  IF Falsy(node) \/ trim(query) = <<>> THEN {} ELSE traverse(node, query)

\* --------------------------------------------- BinaryTreeView: geometry
\* getMaxDepth counting the rows of real nodes below the root row only
RECURSIVE getMaxDepth_RowsBelowRoot(_, _)
getMaxDepth_RowsBelowRoot(node, currentDepth) ==
  IF Falsy(node) THEN currentDepth - 1
  ELSE Max(getMaxDepth_RowsBelowRoot(Prop(node, "leftChild"), currentDepth + 1),
           getMaxDepth_RowsBelowRoot(Prop(node, "rightChild"), currentDepth + 1))

RECURSIVE getMaxDepth(_, _)
getMaxDepth(node, currentDepth) ==
  IF Falsy(node) THEN currentDepth
  ELSE Max(getMaxDepth(Prop(node, "leftChild"), currentDepth + 1),
           getMaxDepth(Prop(node, "rightChild"), currentDepth + 1))

\* getSubtreeWidth leaving out the spacing between the two child bands
RECURSIVE getSubtreeWidth_NoSpacing(_, _)
getSubtreeWidth_NoSpacing(node, showAddPlaceholder) ==
  IF Falsy(node) THEN (IF showAddPlaceholder THEN NODE_WIDTH ELSE 0)
  ELSE LET hasLeft == Prop(node, "leftChild") # NULL
           hasRight == Prop(node, "rightChild") # NULL
       IN  IF ~hasLeft /\ ~hasRight THEN (NODE_WIDTH * 2) + HORIZONTAL_SPACING
           ELSE getSubtreeWidth_NoSpacing(Prop(node, "leftChild"), ~hasLeft)
                + getSubtreeWidth_NoSpacing(Prop(node, "rightChild"), ~hasRight)

\* getSubtreeWidth reserving only the leaf's own width
RECURSIVE getSubtreeWidth_LeafOwnWidth(_, _)
getSubtreeWidth_LeafOwnWidth(node, showAddPlaceholder) ==
  IF Falsy(node) THEN (IF showAddPlaceholder THEN NODE_WIDTH ELSE 0)
  ELSE LET hasLeft == Prop(node, "leftChild") # NULL
           hasRight == Prop(node, "rightChild") # NULL
       IN  IF ~hasLeft /\ ~hasRight THEN NODE_WIDTH
           ELSE getSubtreeWidth_LeafOwnWidth(Prop(node, "leftChild"), ~hasLeft)
                + HORIZONTAL_SPACING
                + getSubtreeWidth_LeafOwnWidth(Prop(node, "rightChild"), ~hasRight)

\* getSubtreeWidth reserving nothing for an empty slot
RECURSIVE getSubtreeWidth_NoSlot(_, _)
getSubtreeWidth_NoSlot(node, showAddPlaceholder) ==
  IF Falsy(node) THEN 0
  ELSE LET hasLeft == Prop(node, "leftChild") # NULL
           hasRight == Prop(node, "rightChild") # NULL
       IN  IF ~hasLeft /\ ~hasRight THEN (NODE_WIDTH * 2) + HORIZONTAL_SPACING
           ELSE getSubtreeWidth_NoSlot(Prop(node, "leftChild"), ~hasLeft)
                + HORIZONTAL_SPACING
                + getSubtreeWidth_NoSlot(Prop(node, "rightChild"), ~hasRight)

RECURSIVE getSubtreeWidth(_, _)
getSubtreeWidth(node, showAddPlaceholder) ==
  IF Falsy(node) THEN (IF showAddPlaceholder THEN NODE_WIDTH ELSE 0)
  ELSE LET hasLeft == Prop(node, "leftChild") # NULL
           hasRight == Prop(node, "rightChild") # NULL
       IN  IF ~hasLeft /\ ~hasRight THEN (NODE_WIDTH * 2) + HORIZONTAL_SPACING
           ELSE getSubtreeWidth(Prop(node, "leftChild"), ~hasLeft)
                + HORIZONTAL_SPACING
                + getSubtreeWidth(Prop(node, "rightChild"), ~hasRight)

\* renderConnector drawing a straight line to a child within one node width
renderConnector_StraightWhenNear(startX, startY, endX, endY) ==
  LET midY == startY + Half(endY - startY)
      radius == CONNECTOR_RADIUS
      goingLeft == endX < startX - NODE_WIDTH
      goingRight == endX > startX + NODE_WIDTH
  IN  IF goingLeft
      THEN << <<"M", startX, startY>>,
              <<"L", startX, midY - radius>>,
              <<"Q", startX, midY, startX - radius, midY>>,
              <<"L", endX + radius, midY>>,
              <<"Q", endX, midY, endX, midY + radius>>,
              <<"L", endX, endY>> >>
      ELSE IF goingRight
      THEN << <<"M", startX, startY>>,
              <<"L", startX, midY - radius>>,
              <<"Q", startX, midY, startX + radius, midY>>,
              <<"L", endX - radius, midY>>,
              <<"Q", endX, midY, endX, midY + radius>>,
              <<"L", endX, endY>> >>
      ELSE << <<"M", startX, startY>>, <<"L", endX, endY>> >>

\* the SVG path as its list of commands (M, L, Q with their coordinates)
renderConnector(startX, startY, endX, endY) ==
  LET midY == startY + Half(endY - startY)
      radius == CONNECTOR_RADIUS
      goingLeft == endX < startX
      goingRight == endX > startX
  IN  IF goingLeft
      THEN << <<"M", startX, startY>>,
              <<"L", startX, midY - radius>>,
              <<"Q", startX, midY, startX - radius, midY>>,
              <<"L", endX + radius, midY>>,
              <<"Q", endX, midY, endX, midY + radius>>,
              <<"L", endX, endY>> >>
      ELSE IF goingRight
      THEN << <<"M", startX, startY>>,
              <<"L", startX, midY - radius>>,
              <<"Q", startX, midY, startX + radius, midY>>,
              <<"L", endX - radius, midY>>,
              <<"Q", endX, midY, endX, midY + radius>>,
              <<"L", endX, endY>> >>
      ELSE << <<"M", startX, startY>>, <<"L", endX, endY>> >>

\* the placeholder handing the opposite side to AddUserNode and onAddUser
AddUserElement_FlippedSide(x, y, parentId, parentMemberId, position) ==
  [kind |-> "AddUserNode", left |-> x - Half(NODE_WIDTH), top |-> y,
   position |-> (IF position = "LEFT" THEN "RIGHT" ELSE "LEFT"),
   parentId |-> parentId, parentMemberId |-> parentMemberId]

\* the placeholder box; position and parentMemberId are also what its onClick
\* passes to onAddUser
AddUserElement(x, y, parentId, parentMemberId, position) ==
  [kind |-> "AddUserNode", left |-> x - Half(NODE_WIDTH), top |-> y,
   position |-> position, parentId |-> parentId, parentMemberId |-> parentMemberId]

\* the card of the selected node lifted by the connector radius
NodeElement_SelectedRaised(node, x, y, parentId, st) ==
  [kind |-> "TreeNodeCard", nodeId |-> IdOf(node), left |-> x - Half(NODE_WIDTH),
   top |-> (IF st.selectedNodeId # NO_ID /\ st.selectedNodeId = IdOf(node)
            THEN y - CONNECTOR_RADIUS ELSE y),
   isRoot |-> (parentId = NO_ID),
   isSelected |-> (st.selectedNodeId # NO_ID /\ st.selectedNodeId = IdOf(node)),
   isHighlighted |-> (IdOf(node) \in st.highlightedNodeIds)]

\* isSelected: selectedNodeId === node.id (null never equals a missing id)
NodeElement(node, x, y, parentId, st) ==
  [kind |-> "TreeNodeCard", nodeId |-> IdOf(node), left |-> x - Half(NODE_WIDTH), top |-> y,
   isRoot |-> (parentId = NO_ID),
   isSelected |-> (st.selectedNodeId # NO_ID /\ st.selectedNodeId = IdOf(node)),
   isHighlighted |-> (IdOf(node) \in st.highlightedNodeIds)]

ConnectorElement(side, node, path) == [side |-> side, nodeId |-> IdOf(node), path |-> path]

\* --------------------------------------------- BinaryTreeView: renderNode
\* renderNode centring the left child on the right edge of its band
RECURSIVE renderNode_LeftEdge(_, _, _, _, _, _, _, _)
renderNode_LeftEdge(node, x, y, parentId, parentMemberId, position, isPlaceholder, st) ==
  IF isPlaceholder /\ parentId # NO_ID /\ position # ""
  THEN [elements |-> << AddUserElement(x, y, parentId, parentMemberId, position) >>,
        connectors |-> << >>]
  ELSE IF Falsy(node)
  THEN [elements |-> << >>, connectors |-> << >>]
  ELSE LET hasLeft == Prop(node, "leftChild") # NULL
           hasRight == Prop(node, "rightChild") # NULL
           childY == y + NODE_HEIGHT + VERTICAL_SPACING
           leftSubtreeWidth == getSubtreeWidth(Prop(node, "leftChild"), ~hasLeft)
           rightSubtreeWidth == getSubtreeWidth(Prop(node, "rightChild"), ~hasRight)
           totalWidth == leftSubtreeWidth + HORIZONTAL_SPACING + rightSubtreeWidth
           leftCenterX == x - Half(totalWidth) + leftSubtreeWidth
           rightCenterX == x + Half(totalWidth) - Half(rightSubtreeWidth)
           leftConnector == renderConnector(x, y + NODE_HEIGHT, leftCenterX, childY)
           rightConnector == renderConnector(x, y + NODE_HEIGHT, rightCenterX, childY)
           leftResult ==
             IF hasLeft
             THEN renderNode_LeftEdge(Prop(node, "leftChild"), leftCenterX, childY, IdOf(node),
                       Prop(node, "memberId"), "LEFT", FALSE, st)
             ELSE renderNode_LeftEdge(NULL, leftCenterX, childY, IdOf(node),
                       Prop(node, "memberId"), "LEFT", TRUE, st)
           rightResult ==
             IF hasRight
             THEN renderNode_LeftEdge(Prop(node, "rightChild"), rightCenterX, childY, IdOf(node),
                       Prop(node, "memberId"), "RIGHT", FALSE, st)
             ELSE renderNode_LeftEdge(NULL, rightCenterX, childY, IdOf(node),
                       Prop(node, "memberId"), "RIGHT", TRUE, st)
       IN  [elements |-> << NodeElement(node, x, y, parentId, st) >>
                         \o leftResult.elements \o rightResult.elements,
            connectors |-> << ConnectorElement("left", node, leftConnector),
                              ConnectorElement("right", node, rightConnector) >>
                           \o leftResult.connectors \o rightResult.connectors]

\* renderNode ending the connectors at the bottom of the spacing row above the child
RECURSIVE renderNode_ShortConnector(_, _, _, _, _, _, _, _)
renderNode_ShortConnector(node, x, y, parentId, parentMemberId, position, isPlaceholder, st) ==
  IF isPlaceholder /\ parentId # NO_ID /\ position # ""
  THEN [elements |-> << AddUserElement(x, y, parentId, parentMemberId, position) >>,
        connectors |-> << >>]
  ELSE IF Falsy(node)
  THEN [elements |-> << >>, connectors |-> << >>]
  ELSE LET hasLeft == Prop(node, "leftChild") # NULL
           hasRight == Prop(node, "rightChild") # NULL
           childY == y + NODE_HEIGHT + VERTICAL_SPACING
           leftSubtreeWidth == getSubtreeWidth(Prop(node, "leftChild"), ~hasLeft)
           rightSubtreeWidth == getSubtreeWidth(Prop(node, "rightChild"), ~hasRight)
           totalWidth == leftSubtreeWidth + HORIZONTAL_SPACING + rightSubtreeWidth
           leftCenterX == x - Half(totalWidth) + Half(leftSubtreeWidth)
           rightCenterX == x + Half(totalWidth) - Half(rightSubtreeWidth)
           leftConnector == renderConnector(x, y + NODE_HEIGHT, leftCenterX, childY - CONNECTOR_RADIUS)
           rightConnector == renderConnector(x, y + NODE_HEIGHT, rightCenterX, childY - CONNECTOR_RADIUS)
           leftResult ==
             IF hasLeft
             THEN renderNode_ShortConnector(Prop(node, "leftChild"), leftCenterX, childY, IdOf(node),
                       Prop(node, "memberId"), "LEFT", FALSE, st)
             ELSE renderNode_ShortConnector(NULL, leftCenterX, childY, IdOf(node),
                       Prop(node, "memberId"), "LEFT", TRUE, st)
           rightResult ==
             IF hasRight
             THEN renderNode_ShortConnector(Prop(node, "rightChild"), rightCenterX, childY, IdOf(node),
                       Prop(node, "memberId"), "RIGHT", FALSE, st)
             ELSE renderNode_ShortConnector(NULL, rightCenterX, childY, IdOf(node),
                       Prop(node, "memberId"), "RIGHT", TRUE, st)
       IN  [elements |-> << NodeElement(node, x, y, parentId, st) >>
                         \o leftResult.elements \o rightResult.elements,
            connectors |-> << ConnectorElement("left", node, leftConnector),
                              ConnectorElement("right", node, rightConnector) >>
                           \o leftResult.connectors \o rightResult.connectors]

\* st: the component state and props the closure reads (selectedNodeId, highlightedNodeIds)
RECURSIVE renderNode(_, _, _, _, _, _, _, _)
renderNode(node, x, y, parentId, parentMemberId, position, isPlaceholder, st) ==
  IF isPlaceholder /\ parentId # NO_ID /\ position # ""
  THEN [elements |-> << AddUserElement(x, y, parentId, parentMemberId, position) >>,
        connectors |-> << >>]
  ELSE IF Falsy(node)
  THEN [elements |-> << >>, connectors |-> << >>]
  ELSE LET hasLeft == Prop(node, "leftChild") # NULL
           hasRight == Prop(node, "rightChild") # NULL
           childY == y + NODE_HEIGHT + VERTICAL_SPACING
           leftSubtreeWidth == getSubtreeWidth(Prop(node, "leftChild"), ~hasLeft)
           rightSubtreeWidth == getSubtreeWidth(Prop(node, "rightChild"), ~hasRight)
           totalWidth == leftSubtreeWidth + HORIZONTAL_SPACING + rightSubtreeWidth
           leftCenterX == x - Half(totalWidth) + Half(leftSubtreeWidth)
           rightCenterX == x + Half(totalWidth) - Half(rightSubtreeWidth)
           leftConnector == renderConnector(x, y + NODE_HEIGHT, leftCenterX, childY)
           rightConnector == renderConnector(x, y + NODE_HEIGHT, rightCenterX, childY)
           leftResult ==
             IF hasLeft
             THEN renderNode(Prop(node, "leftChild"), leftCenterX, childY, IdOf(node),
                       Prop(node, "memberId"), "LEFT", FALSE, st)
             ELSE renderNode(NULL, leftCenterX, childY, IdOf(node),
                       Prop(node, "memberId"), "LEFT", TRUE, st)
           rightResult ==
             IF hasRight
             THEN renderNode(Prop(node, "rightChild"), rightCenterX, childY, IdOf(node),
                       Prop(node, "memberId"), "RIGHT", FALSE, st)
             ELSE renderNode(NULL, rightCenterX, childY, IdOf(node),
                       Prop(node, "memberId"), "RIGHT", TRUE, st)
       IN  [elements |-> << NodeElement(node, x, y, parentId, st) >>
                         \o leftResult.elements \o rightResult.elements,
            connectors |-> << ConnectorElement("left", node, leftConnector),
                              ConnectorElement("right", node, rightConnector) >>
                           \o leftResult.connectors \o rightResult.connectors]

\* ------------------------------------------ BinaryTreeView: component body
NoTreeDataView(invoked) ==
  [kind |-> "NoTreeData", invoked |-> invoked, width |-> 0, height |-> 0,
   elements |-> << >>, connectors |-> << >>, popover |-> NO_ID]

TreeView(rootNode, st) ==
  LET treeWidth == getSubtreeWidth(rootNode, TRUE)
      maxDepth == getMaxDepth(rootNode, 0)
      treeHeight == (maxDepth + 1) * (NODE_HEIGHT + VERTICAL_SPACING) + CANVAS_MARGIN
      startX == Half(treeWidth) + START_MARGIN
      startY == START_Y
      result == renderNode(rootNode, startX, startY, NO_ID, UNDEFINED, "", FALSE, st)
  IN  [kind |-> "Tree", invoked |-> {"getSubtreeWidth", "getMaxDepth", "renderNode"},
       width |-> treeWidth + CANVAS_MARGIN, height |-> treeHeight,
       elements |-> result.elements, connectors |-> result.connectors,
       popover |-> st.hoverState.node]

\* the component body with the layout computed ahead of the null check
BinaryTreeViewRender_LayoutFirst(rootNode, st) ==
  LET view == TreeView(rootNode, st)
  IN  IF Falsy(rootNode) THEN NoTreeDataView(view.invoked) ELSE view

\* what one render of BinaryTreeView returns; invoked: the layout functions it called
BinaryTreeViewRender(rootNode, st) ==
  IF Falsy(rootNode) THEN NoTreeDataView({}) ELSE TreeView(rootNode, st)

\* ----------------------------------------------------- MyTree: page body
\* queryFn of useGetTree: response.data on success, {} from the catch block
queryFn(outcome) == IF outcome.ok THEN outcome.data ELSE EmptyObject

Truthy(v) == ~Falsy(v)

\* ui: selectedNodeId and hoverState of the mounted BinaryTreeView
MyTreeRender(q, search, ui) ==
  IF q.isLoading THEN [kind |-> "Skeleton"]
  ELSE IF q.isError THEN [kind |-> "Error"]
  ELSE LET treeData == q.data
           matchingNodeIds == IF Truthy(treeData) THEN findMatchingNodeIds(treeData, search) ELSE {}
           businessVolume == IF Truthy(treeData) THEN countBusinessVolume(treeData)
                             ELSE [left |-> 0, right |-> 0]
           rootNode == IF Truthy(treeData) THEN treeData ELSE NULL
       IN  [kind |-> "BinaryTreeView", rootNode |-> rootNode,
            highlightedNodeIds |-> matchingNodeIds, searchQuery |-> search,
            extremeLeft |-> businessVolume.left, extremeRight |-> businessVolume.right,
            view |-> BinaryTreeViewRender(rootNode,
                       [selectedNodeId |-> ui.selectedNodeId,
                        highlightedNodeIds |-> matchingNodeIds,
                        hoverState |-> ui.hoverState])]

\* ----------------------------------------------------------------- state
\* MyTree: query (useGetTree), searchQuery; page: what MyTree last rendered.
\* BinaryTreeView: revision (R1 = BinaryTreeView.tsx, R2 = the revision with
\* long-press kept in PackagePurchaseModal.tsx), its useState and useRef cells,
\* timers: the setTimeout callbacks still pending, contextMenu: the last
\* contextmenu event dispatched, afterTeardown: what ran after the unmount,
\* calls: the prop callbacks invoked and DOM events dispatched by the last step.
VARIABLES query, searchQuery, page, revision, isMobile, selectedNodeId, hoverState,
          tappedNodeId, hoverTimeoutRef, longPressTimeoutRef, longPressTriggeredRef,
          timers, contextMenu, afterTeardown, calls

\* pointerAt: what the mouse pointer is over, as far as the pointer events the
\* view received tell (not followed in the runs that try every event order)
VARIABLES pointerAt

\* the shared axios client of src/unnamed/part_006. apiVersion: which of the two
\* versions of the response interceptor is installed, inFlight: the request
\* waiting for its HTTP response, interceptors: the interceptor runs suspended at
\* `await api.post("/auth/refresh")`, innermost last, settled: how the promise of
\* the last request settled (not yet delivered to who awaits it), httpCalls: the
\* HTTP calls the caller's request has led to, location: window.location.href,
\* callerPromise: the promise the caller holds.
VARIABLES apiVersion, inFlight, interceptors, settled, httpCalls, location, callerPromise

\* a tree as the object graph the recursions are handed. heap: leftChild and
\* rightChild of each TreeNode object (an address, or 0 for null), callStack: the
\* frames of the recursion that is running, innermost last, walkStatus: whether a
\* recursion is running, has returned, or was ended by the engine.
VARIABLES heap, callStack, walkStatus

viewVars == <<query, searchQuery, page, revision, isMobile, selectedNodeId, hoverState,
              tappedNodeId, hoverTimeoutRef, longPressTimeoutRef, longPressTriggeredRef,
              timers, contextMenu, afterTeardown, calls, pointerAt>>

apiVars == <<apiVersion, inFlight, interceptors, settled, httpCalls, location, callerPromise>>

\* PackagePurchaseModal. purchaseVersion: which of the two versions of the modal
\* in PackagePurchaseModal.tsx, isAdmin: its prop, purchaseMode, targetMemberId,
\* amount (in whole dollars), walletAmounts: its useState cells, payload: what
\* handleSubmit handed to purchaseMutation.mutate.
VARIABLES purchaseVersion, isAdmin, purchaseMode, targetMemberId, amount, walletAmounts, payload

walkVars == <<heap, callStack, walkStatus>>

purchaseVars == <<purchaseVersion, isAdmin, purchaseMode, targetMemberId, amount,
                  walletAmounts, payload>>

\* the state of the parts of the application a step of the tree page leaves alone
otherVars == <<apiVars, walkVars, purchaseVars>>

vars == <<viewVars, otherVars>>

pageVars == <<query, searchQuery, page>>

refVars == <<hoverTimeoutRef, longPressTimeoutRef, longPressTriggeredRef>>

Revisions == {"R1", "R2"}

NoHover == [node |-> NO_ID, position |-> [x |-> 0, y |-> 0], nodeHeight |-> 0]

NoMenu == [nodeId |-> NO_ID, at |-> "none"]

UiState == [selectedNodeId |-> selectedNodeId, hoverState |-> hoverState]

\* no request sent through the api client yet
NoRequest == [url |-> "", retry |-> FALSE]

ApiIdle ==
  /\ inFlight = NoRequest
  /\ interceptors = << >>
  /\ settled = "none"
  /\ httpCalls = << >>
  /\ location = "/"
  /\ callerPromise = "idle"

\* the TreeNode objects of the object graphs tried
HeapAddresses == {1, 2}

NULL_REF == 0

\* a childless TreeNode object
LeafObject == [leftChild |-> NULL_REF, rightChild |-> NULL_REF]

WalkIdle ==
  /\ callStack = << >>
  /\ walkStatus = "idle"

\* the wallets GET /wallet/user-wallets and GET /packages/wallet-rules list
Wallets == {"F_WALLET", "M_WALLET", "BONUS_WALLET"}

NoPayload == [sent |-> FALSE]

\* the modal just opened: amount "", every wallet amount ""
ModalOpened ==
  /\ amount = 0
  /\ walletAmounts = [w \in Wallets |-> 0]
  /\ payload = NoPayload

PurchaseIdle ==
  /\ purchaseVersion = "second"
  /\ isAdmin = FALSE
  /\ purchaseMode = "self"
  /\ targetMemberId = ""
  /\ ModalOpened

\* the rest of the application while the tree page is exercised
OtherIdle ==
  /\ apiVersion = "second" /\ ApiIdle
  /\ heap = [a \in HeapAddresses |-> LeafObject] /\ WalkIdle
  /\ PurchaseIdle

Untracked == [over |-> "untracked", node |-> NO_ID]

Outside == [over |-> "outside", node |-> NO_ID]

OverPopover == [over |-> "popover", node |-> NO_ID]

OverNode(node) == [over |-> "node", node |-> node]

\* a mouseenter / mouseleave was delivered: the pointer is now over target
PointerOver(target) == pointerAt' = IF pointerAt = Untracked THEN Untracked ELSE target

\* the useState / useRef initial values of BinaryTreeView
InitView ==
  /\ selectedNodeId = NO_ID
  /\ hoverState = NoHover
  /\ tappedNodeId = NO_ID
  /\ hoverTimeoutRef = NO_ID
  /\ longPressTimeoutRef = NO_ID
  /\ longPressTriggeredRef = FALSE
  /\ timers = {}
  /\ contextMenu = NoMenu
  /\ afterTeardown = {}
  /\ calls = << >>

\* MyTree mounted, the tree request in flight
Init ==
  /\ query = [isLoading |-> TRUE, isError |-> FALSE, data |-> UNDEFINED]
  /\ searchQuery = << >>
  /\ revision = "R1"
  /\ isMobile = FALSE
  /\ InitView
  /\ pointerAt = Untracked
  /\ OtherIdle
  /\ page = MyTreeRender(query, searchQuery, UiState)

Rerender == page' = MyTreeRender(query', searchQuery', UiState')

\* the request MyTree starts on mount settles: useQuery stores what queryFn returns
\* (queryFn never throws, so isError stays false) and the page re-renders
TreeRequestSettles(outcome) ==
  /\ query.isLoading
  /\ query' = [isLoading |-> FALSE, isError |-> FALSE, data |-> queryFn(outcome)]
  /\ UNCHANGED <<otherVars, pointerAt, searchQuery, revision, isMobile, selectedNodeId, hoverState, tappedNodeId,
                 refVars, timers, contextMenu, afterTeardown>>
  /\ calls' = << >>
  /\ Rerender

TreeRequestSucceeds == \E data \in ResponseData : TreeRequestSettles([ok |-> TRUE, data |-> data])

TreeRequestFails == TreeRequestSettles([ok |-> FALSE])

\* TreeControls onSearchChange = setSearchQuery, then MyTree re-renders
SetSearchQuery(q) ==
  /\ page.kind # "Unmounted"
  /\ searchQuery' = q
  /\ UNCHANGED <<otherVars, pointerAt, query, revision, isMobile, selectedNodeId, hoverState, tappedNodeId,
                 refVars, timers, contextMenu, afterTeardown>>
  /\ calls' = << >>
  /\ Rerender

\* the search box is edited one keystroke at a time
TypeSearchChar ==
  \E c \in QueryChars : Len(searchQuery) < MaxQueryLen /\ SetSearchQuery(Append(searchQuery, c))

DeleteSearchChar ==
  searchQuery # << >> /\ SetSearchQuery(SubSeq(searchQuery, 1, Len(searchQuery) - 1))

Next == TreeRequestSucceeds \/ TreeRequestFails \/ TypeSearchChar \/ DeleteSearchChar

Spec == Init /\ [][Next]_vars

\* ------------------------------------------- BinaryTreeView: interaction
Mounted == page.kind = "BinaryTreeView"

\* the card of node id is in the DOM (containerRef.current.querySelector finds it)
NodeRendered(id) ==
  /\ Mounted
  /\ page.view.kind = "Tree"
  /\ \E i \in DOMAIN page.view.elements :
       page.view.elements[i].kind = "TreeNodeCard" /\ page.view.elements[i].nodeId = id

RenderedNodeIds ==
  IF Mounted /\ page.view.kind = "Tree"
  THEN { page.view.elements[i].nodeId :
           i \in { k \in DOMAIN page.view.elements : page.view.elements[k].kind = "TreeNodeCard" } }
  ELSE {}

\* {hoverState.node && <div onMouseEnter onMouseLeave>...}
PopoverRendered == Mounted /\ page.view.kind = "Tree" /\ page.view.popover # NO_ID

\* rects relative to the container: the card is the absolutely placed box of renderNode
getNodePosition(nodeId) ==
  IF NodeRendered(nodeId)
  THEN LET box == page.view.elements[CHOOSE i \in DOMAIN page.view.elements :
                    page.view.elements[i].kind = "TreeNodeCard"
                    /\ page.view.elements[i].nodeId = nodeId]
       IN  [found |-> TRUE, x |-> box.left + Half(NODE_WIDTH), y |-> box.top + NODE_HEIGHT,
            height |-> NODE_HEIGHT]
  ELSE [found |-> FALSE]

HoverKinds == {"hoverShow", "hoverHide"}

clearTimeout(pending, id) == { t \in pending : t.id # id }

\* setTimeout returns an id no pending timer and no ref holds
setTimeoutId(pending, heldRefs) ==
  CHOOSE id \in 1..(MaxPendingTimers + 2) :
    /\ id \notin { t.id : t \in pending } \cup heldRefs
    /\ \A smaller \in 1..(id - 1) : smaller \in { t.id : t \in pending } \cup heldRefs

\* a state setter called by a handler or timer callback: after the unmount React
\* drops the update, the call itself is recorded
SetStateCalls(names) == afterTeardown' = IF Mounted THEN afterTeardown ELSE afterTeardown \cup names

\* one entry of calls: a prop callback invoked or a DOM event dispatched
Call(fn, node, memberId, arg) == [fn |-> fn, node |-> node, memberId |-> memberId, arg |-> arg]

\* the handler returns without dispatching; before: the calls it made so far
NoDispatch(before) == UNCHANGED contextMenu /\ calls' = before

\* openContextMenuAtNode: dispatches contextmenu on the node's element, if there is one
openContextMenuAtNode(nodeId, at, before) ==
  IF NodeRendered(nodeId)
  THEN /\ contextMenu' = [nodeId |-> nodeId, at |-> at]
       /\ calls' = Append(before, Call("contextmenu", nodeId, << >>, at))
  ELSE NoDispatch(before)

ViewRerender == page' = IF Mounted THEN MyTreeRender(query, searchQuery, UiState') ELSE page

\* onMouseEnter of a node card
handleHoverStart(node) ==
  /\ NodeRendered(node)
  /\ IF isMobile
     THEN UNCHANGED <<hoverTimeoutRef, timers>>
     ELSE LET cleared == clearTimeout(timers, hoverTimeoutRef)
              id == setTimeoutId(cleared, {longPressTimeoutRef})
          IN  /\ Cardinality(cleared) < MaxPendingTimers
              /\ timers' = cleared \cup {[id |-> id, kind |-> "hoverShow", node |-> node, at |-> "none"]}
              /\ hoverTimeoutRef' = id
  /\ PointerOver(OverNode(node))
  /\ UNCHANGED <<otherVars, pageVars, revision, isMobile, selectedNodeId, hoverState, tappedNodeId,
                 longPressTimeoutRef, longPressTriggeredRef, contextMenu, afterTeardown>>
  /\ calls' = << >>

\* the show callback placing the popover at the origin when the lookup fails
HoverShowTimerFires_ShowAtOrigin ==
  \E t \in timers :
    /\ t.kind = "hoverShow"
    /\ timers' = timers \ {t}
    /\ LET pos == getNodePosition(t.node)
       IN  hoverState' = IF pos.found
                         THEN [node |-> t.node, position |-> [x |-> pos.x, y |-> pos.y],
                               nodeHeight |-> pos.height]
                         ELSE [node |-> t.node, position |-> [x |-> 0, y |-> 0], nodeHeight |-> 0]
    /\ SetStateCalls({"callback", "setHoverState"})
    /\ UNCHANGED <<otherVars, pointerAt, query, searchQuery, revision, isMobile, selectedNodeId, tappedNodeId,
                   refVars, contextMenu>>
    /\ calls' = << >>
    /\ ViewRerender

\* the callback handleHoverStart scheduled runs
HoverShowTimerFires ==
  \E t \in timers :
    /\ t.kind = "hoverShow"
    /\ timers' = timers \ {t}
    /\ LET pos == getNodePosition(t.node)
       IN  IF pos.found
           THEN /\ hoverState' = [node |-> t.node, position |-> [x |-> pos.x, y |-> pos.y],
                                  nodeHeight |-> pos.height]
                /\ SetStateCalls({"callback", "setHoverState"})
           ELSE /\ UNCHANGED hoverState
                /\ SetStateCalls({"callback"})
    /\ UNCHANGED <<otherVars, pointerAt, query, searchQuery, revision, isMobile, selectedNodeId, tappedNodeId,
                   refVars, contextMenu>>
    /\ calls' = << >>
    /\ ViewRerender

\* handleHoverEnd cancelling the pending timer without scheduling the hide
handleHoverEnd_OnlyCancels ==
  /\ RenderedNodeIds # {}
  /\ IF isMobile
     THEN UNCHANGED <<hoverTimeoutRef, timers>>
     ELSE /\ timers' = clearTimeout(timers, hoverTimeoutRef)
          /\ hoverTimeoutRef' = NO_ID
  /\ PointerOver(Outside)
  /\ UNCHANGED <<otherVars, pageVars, revision, isMobile, selectedNodeId, hoverState, tappedNodeId,
                 longPressTimeoutRef, longPressTriggeredRef, contextMenu, afterTeardown>>
  /\ calls' = << >>

\* onMouseLeave of a node card
handleHoverEnd ==
  /\ RenderedNodeIds # {}
  /\ IF isMobile
     THEN UNCHANGED <<hoverTimeoutRef, timers>>
     ELSE LET cleared == clearTimeout(timers, hoverTimeoutRef)
              id == setTimeoutId(cleared, {longPressTimeoutRef})
          IN  /\ Cardinality(cleared) < MaxPendingTimers
              /\ timers' = cleared \cup {[id |-> id, kind |-> "hoverHide", node |-> NO_ID, at |-> "none"]}
              /\ hoverTimeoutRef' = id
  /\ PointerOver(Outside)
  /\ UNCHANGED <<otherVars, pageVars, revision, isMobile, selectedNodeId, hoverState, tappedNodeId,
                 longPressTimeoutRef, longPressTriggeredRef, contextMenu, afterTeardown>>
  /\ calls' = << >>

\* the callback handleHoverEnd (or, in R1, handlePopupMouseLeave) scheduled runs
HoverHideTimerFires ==
  \E t \in timers :
    /\ t.kind = "hoverHide"
    /\ timers' = timers \ {t}
    /\ hoverState' = IF Mounted THEN NoHover ELSE hoverState
    /\ SetStateCalls({"callback", "setHoverState"})
    /\ UNCHANGED <<otherVars, pointerAt, query, searchQuery, revision, isMobile, selectedNodeId, tappedNodeId,
                   refVars, contextMenu>>
    /\ calls' = << >>
    /\ ViewRerender

\* onMouseEnter of the popover
handlePopupMouseEnter ==
  /\ PopoverRendered
  /\ timers' = clearTimeout(timers, hoverTimeoutRef)
  /\ hoverTimeoutRef' = NO_ID
  /\ PointerOver(OverPopover)
  /\ UNCHANGED <<otherVars, pageVars, revision, isMobile, selectedNodeId, hoverState, tappedNodeId,
                 longPressTimeoutRef, longPressTriggeredRef, contextMenu, afterTeardown>>
  /\ calls' = << >>

\* onMouseLeave of the popover: R2 cancels the pending timer and hides at once,
\* R1 schedules a hide without cancelling
handlePopupMouseLeave ==
  /\ PopoverRendered
  /\ IF revision = "R2"
     THEN /\ timers' = clearTimeout(timers, hoverTimeoutRef)
          /\ hoverTimeoutRef' = NO_ID
          /\ hoverState' = NoHover
     ELSE LET id == setTimeoutId(timers, {longPressTimeoutRef})
          IN  /\ Cardinality(timers) < MaxPendingTimers
              /\ timers' = timers \cup {[id |-> id, kind |-> "hoverHide", node |-> NO_ID, at |-> "none"]}
              /\ hoverTimeoutRef' = id
              /\ UNCHANGED hoverState
  /\ PointerOver(Outside)
  /\ UNCHANGED <<otherVars, query, searchQuery, revision, isMobile, selectedNodeId, tappedNodeId,
                 longPressTimeoutRef, longPressTriggeredRef, contextMenu, afterTeardown>>
  /\ calls' = << >>
  /\ ViewRerender

\* the tap logic without its `if (!isMobile) return`
handleMobileTap_AnyDevice(node) ==
  IF tappedNodeId = node
  THEN /\ tappedNodeId' = NO_ID
       /\ hoverState' = NoHover
       /\ IF revision = "R2" THEN openContextMenuAtNode(node, "center", << >>) ELSE NoDispatch(<< >>)
  ELSE LET pos == getNodePosition(node)
       IN  /\ IF pos.found
              THEN /\ hoverState' = [node |-> node, position |-> [x |-> pos.x, y |-> pos.y],
                                     nodeHeight |-> pos.height]
                   /\ tappedNodeId' = node
              ELSE UNCHANGED <<hoverState, tappedNodeId>>
           /\ NoDispatch(<< >>)

\* first tap shows the details, second tap on the same node closes them (and, in
\* R2, opens the context menu)
handleMobileTap(node) ==
  IF ~isMobile
  THEN UNCHANGED <<hoverState, tappedNodeId>> /\ NoDispatch(<< >>)
  ELSE IF tappedNodeId = node
  THEN /\ tappedNodeId' = NO_ID
       /\ hoverState' = NoHover
       /\ IF revision = "R2" THEN openContextMenuAtNode(node, "center", << >>) ELSE NoDispatch(<< >>)
  ELSE LET pos == getNodePosition(node)
       IN  /\ IF pos.found
              THEN /\ hoverState' = [node |-> node, position |-> [x |-> pos.x, y |-> pos.y],
                                     nodeHeight |-> pos.height]
                   /\ tappedNodeId' = node
              ELSE UNCHANGED <<hoverState, tappedNodeId>>
           /\ NoDispatch(<< >>)

\* onTouchStart of a node card (R2 only: R1 registers no touch-start handler)
handleTouchStart(node) ==
  /\ revision = "R2"
  /\ NodeRendered(node)
  /\ IF ~isMobile
     THEN UNCHANGED <<longPressTimeoutRef, longPressTriggeredRef, timers>>
     ELSE LET cleared == clearTimeout(timers, longPressTimeoutRef)
              id == setTimeoutId(cleared, {hoverTimeoutRef})
          IN  /\ Cardinality(cleared) < MaxPendingTimers
              /\ longPressTriggeredRef' = FALSE
              /\ timers' = cleared \cup {[id |-> id, kind |-> "longPress", node |-> node, at |-> "touch"]}
              /\ longPressTimeoutRef' = id
  /\ UNCHANGED <<otherVars, pointerAt, pageVars, revision, isMobile, selectedNodeId, hoverState, tappedNodeId,
                 hoverTimeoutRef, contextMenu, afterTeardown>>
  /\ calls' = << >>

\* the long-press callback runs
LongPressTimerFires ==
  \E t \in timers :
    /\ t.kind = "longPress"
    /\ timers' = timers \ {t}
    /\ longPressTriggeredRef' = TRUE
    /\ tappedNodeId' = IF Mounted THEN NO_ID ELSE tappedNodeId
    /\ hoverState' = IF Mounted THEN NoHover ELSE hoverState
    /\ SetStateCalls({"callback", "setTappedNodeId", "setHoverState"})
    /\ openContextMenuAtNode(t.node, t.at, << >>)
    /\ UNCHANGED <<otherVars, pointerAt, query, searchQuery, revision, isMobile, selectedNodeId,
                   hoverTimeoutRef, longPressTimeoutRef>>
    /\ ViewRerender

\* handleTouchEnd running the tap logic whether or not the long-press has fired
handleTouchEnd_AlwaysTaps(node) ==
  /\ NodeRendered(node)
  /\ IF revision = "R1"
     THEN /\ handleMobileTap(node)
          /\ UNCHANGED <<timers, longPressTimeoutRef, longPressTriggeredRef>>
     ELSE IF ~isMobile
     THEN /\ UNCHANGED <<timers, longPressTimeoutRef, longPressTriggeredRef,
                         hoverState, tappedNodeId>>
          /\ NoDispatch(<< >>)
     ELSE /\ timers' = clearTimeout(timers, longPressTimeoutRef)
          /\ longPressTimeoutRef' = NO_ID
          /\ longPressTriggeredRef' = FALSE
          /\ handleMobileTap(node)
  /\ UNCHANGED <<otherVars, pointerAt, query, searchQuery, revision, isMobile, selectedNodeId, hoverTimeoutRef,
                 afterTeardown>>
  /\ ViewRerender

\* onTouchEnd of a node card: handleTouchEnd in R2, handleMobileTap itself in R1
handleTouchEnd(node) ==
  /\ NodeRendered(node)
  /\ IF revision = "R1"
     THEN /\ handleMobileTap(node)
          /\ UNCHANGED <<timers, longPressTimeoutRef, longPressTriggeredRef>>
     ELSE IF ~isMobile
     THEN /\ UNCHANGED <<timers, longPressTimeoutRef, longPressTriggeredRef,
                         hoverState, tappedNodeId>>
          /\ NoDispatch(<< >>)
     ELSE /\ timers' = clearTimeout(timers, longPressTimeoutRef)
          /\ longPressTimeoutRef' = NO_ID
          /\ IF longPressTriggeredRef
             THEN /\ longPressTriggeredRef' = FALSE
                  /\ UNCHANGED <<hoverState, tappedNodeId>>
                  /\ NoDispatch(<< >>)
             ELSE /\ UNCHANGED longPressTriggeredRef
                  /\ handleMobileTap(node)
  /\ UNCHANGED <<otherVars, pointerAt, query, searchQuery, revision, isMobile, selectedNodeId, hoverTimeoutRef,
                 afterTeardown>>
  /\ ViewRerender

\* onTouchCancel of a node card (R2 only)
handleTouchCancel ==
  /\ revision = "R2"
  /\ RenderedNodeIds # {}
  /\ timers' = clearTimeout(timers, longPressTimeoutRef)
  /\ longPressTimeoutRef' = NO_ID
  /\ longPressTriggeredRef' = FALSE
  /\ UNCHANGED <<otherVars, pointerAt, pageVars, revision, isMobile, selectedNodeId, hoverState, tappedNodeId,
                 hoverTimeoutRef, contextMenu, afterTeardown>>
  /\ calls' = << >>

\* onClick of a node card: R1 selects; R2 also clears the popover and, on desktop,
\* opens the context menu at the click point
handleNodeClick(node) ==
  /\ NodeRendered(node)
  /\ selectedNodeId' = node
  /\ IF revision = "R2"
     THEN /\ hoverState' = NoHover
          /\ tappedNodeId' = NO_ID
          /\ IF ~isMobile
             THEN openContextMenuAtNode(node, "pointer", << Call("onNodeClick", node, << >>, "") >>)
             ELSE NoDispatch(<< Call("onNodeClick", node, << >>, "") >>)
     ELSE /\ UNCHANGED <<hoverState, tappedNodeId>>
          /\ NoDispatch(<< Call("onNodeClick", node, << >>, "") >>)
  /\ UNCHANGED <<otherVars, pointerAt, query, searchQuery, revision, isMobile, refVars, timers, afterTeardown>>
  /\ ViewRerender

\* onClose of the popover
closeHoverDetails ==
  /\ PopoverRendered
  /\ hoverState' = NoHover
  /\ tappedNodeId' = NO_ID
  /\ UNCHANGED <<otherVars, pointerAt, query, searchQuery, revision, isMobile, selectedNodeId, refVars, timers,
                 contextMenu, afterTeardown>>
  /\ calls' = << >>
  /\ ViewRerender

\* what activating a placeholder calls: onClick of AddUserNode is
\* () => onAddUser?.(parentMemberId, position), and changes no state of the view
AddUserOnClick(element) == Call("onAddUser", NO_ID, element.parentMemberId, element.position)

\* the search box contents tried while the view is used
UIQueries == { << >>, <<"a">> }

\* the search box changes while the view is mounted: new highlightedNodeIds and
\* searchQuery props, BinaryTreeView re-renders
SearchChangesUI ==
  \E q \in UIQueries : q # searchQuery /\ SetSearchQuery(q)

\* the user leaves the page: React unmounts BinaryTreeView. The mount effect
\* returns no cleanup, so the refs and the pending timers are left as they are
Unmount ==
  /\ Mounted
  /\ page' = [kind |-> "Unmounted"]
  /\ UNCHANGED <<otherVars, pointerAt, query, searchQuery, revision, isMobile, selectedNodeId, hoverState,
                 tappedNodeId, refVars, timers, contextMenu, afterTeardown>>
  /\ calls' = << >>

\* the tree of the interaction runs: a root with a left child
UITree == TreeNode(1, TreeNode(2, NULL, NULL), NULL)

UINodeIds == {1, 2}

\* BinaryTreeView (either revision) just mounted with UITree, the mount effect
\* has set isMobile from the device
InitUI ==
  /\ query = [isLoading |-> FALSE, isError |-> FALSE, data |-> UITree]
  /\ searchQuery = << >>
  /\ revision \in Revisions
  /\ isMobile \in BOOLEAN
  /\ InitView
  /\ pointerAt = Untracked
  /\ OtherIdle
  /\ page = MyTreeRender(query, searchQuery, UiState)

NextUI ==
  \/ \E node \in UINodeIds : handleHoverStart(node)
  \/ HoverShowTimerFires
  \/ handleHoverEnd
  \/ HoverHideTimerFires
  \/ handlePopupMouseEnter
  \/ handlePopupMouseLeave
  \/ \E node \in UINodeIds : handleTouchStart(node)
  \/ LongPressTimerFires
  \/ \E node \in UINodeIds : handleTouchEnd(node)
  \/ handleTouchCancel
  \/ \E node \in UINodeIds : handleNodeClick(node)
  \/ closeHoverDetails
  \/ SearchChangesUI
  \/ Unmount

SpecUI == InitUI /\ [][NextUI]_vars

\* ------------------------------------------- BinaryTreeView: the mouse on a desktop
\* nothing the pointer could be over holds it: it has left, or what it was over
\* is no longer rendered
PointerIsOutside ==
  \/ pointerAt = Outside
  \/ pointerAt = OverPopover /\ ~PopoverRendered

\* the pointer moves onto a node card
PointerEntersNode(node) == PointerIsOutside /\ handleHoverStart(node)

\* the pointer moves off the node card it is over
PointerLeavesNode == pointerAt.over = "node" /\ handleHoverEnd

\* the pointer moves onto the popover
PointerEntersPopover == PointerIsOutside /\ handlePopupMouseEnter

\* the pointer moves off the popover
PointerLeavesPopover == pointerAt = OverPopover /\ handlePopupMouseLeave

\* the node card under the pointer is clicked
PointerClicksNode == pointerAt.over = "node" /\ handleNodeClick(pointerAt.node)

\* BinaryTreeView (either revision) mounted with UITree on a device without
\* touch, the pointer over none of its elements
InitHover ==
  /\ query = [isLoading |-> FALSE, isError |-> FALSE, data |-> UITree]
  /\ searchQuery = << >>
  /\ revision \in Revisions
  /\ isMobile = FALSE
  /\ selectedNodeId = NO_ID
  /\ hoverState = NoHover
  /\ tappedNodeId = NO_ID
  /\ hoverTimeoutRef = NO_ID
  /\ longPressTimeoutRef = NO_ID
  /\ longPressTriggeredRef = FALSE
  /\ timers = {}
  /\ contextMenu = NoMenu
  /\ afterTeardown = {}
  /\ calls = << >>
  /\ pointerAt = Outside
  /\ OtherIdle
  /\ page = MyTreeRender(query, searchQuery, UiState)

NextHover ==
  \/ \E node \in UINodeIds : PointerEntersNode(node)
  \/ PointerLeavesNode
  \/ PointerEntersPopover
  \/ PointerLeavesPopover
  \/ PointerClicksNode
  \/ HoverShowTimerFires
  \/ HoverHideTimerFires
  \/ SearchChangesUI

SpecHover == InitHover /\ [][NextHover]_vars

\* a pending setTimeout callback runs once its delay has passed
SpecHoverFair ==
  SpecHover /\ WF_vars(HoverShowTimerFires) /\ WF_vars(HoverHideTimerFires)

\* ------------------------------------------- the shared api client
ApiVersions == {"first", "second"}

\* the requests the pages send: the tree, the profile, a purchase
RequestUrls == {"/tree/user/1?depth=3", "/auth/get-profile", "/purchase"}

REFRESH_URL == "/auth/refresh"

\* originalRequest.url?.includes("/auth/refresh")
IncludesAuthRefresh(url) == url = REFRESH_URL

\* the statuses the backend answers with
Statuses == {200, 401, 500}

HttpCall(config) == [url |-> config.url, retry |-> config.retry, status |-> 0]

\* api(config) / api.post(url): the request goes out, its config is what
\* error.config will be
Send(config) ==
  /\ Len(httpCalls) < MaxHttpCalls
  /\ inFlight' = config
  /\ httpCalls' = Append(httpCalls, HttpCall(config))
  /\ settled' = "none"

\* the response of the call in flight is recorded
Answered(status) == [httpCalls EXCEPT ![Len(httpCalls)].status = status]

\* an originalRequest that keeps no mark of having been retried
MarkRetried_Forgets(config) == config

\* originalRequest._retry = true
MarkRetried(config) == [config EXCEPT !.retry = TRUE]

\* a page calls the client
ApiRequest(url) ==
  /\ callerPromise = "idle"
  /\ location # "/signin"
  /\ callerPromise' = "pending"
  /\ Send([url |-> url, retry |-> FALSE])
  /\ UNCHANGED <<viewVars, walkVars, purchaseVars, apiVersion, interceptors, location>>

\* a 2xx response: (response) => response
HttpSuccess ==
  /\ inFlight # NoRequest
  /\ httpCalls' = Answered(200)
  /\ inFlight' = NoRequest
  /\ settled' = "fulfilled"
  /\ UNCHANGED <<viewVars, walkVars, purchaseVars, apiVersion, interceptors, location, callerPromise>>

\* an error response: the rejected handler of the response interceptor, up to
\* its `await api.post("/auth/refresh")` or its return
HttpError(status) ==
  /\ inFlight # NoRequest
  /\ status # 200
  /\ IF apiVersion = "second" /\ IncludesAuthRefresh(inFlight.url)
     THEN /\ location' = "/signin"
          /\ httpCalls' = Answered(status)
          /\ inFlight' = NoRequest
          /\ settled' = "rejected"
          /\ UNCHANGED interceptors
     ELSE IF status = 401 /\ ~inFlight.retry
     THEN /\ Len(httpCalls) < MaxHttpCalls
          /\ interceptors' = Append(interceptors, MarkRetried(inFlight))
          /\ inFlight' = [url |-> REFRESH_URL, retry |-> FALSE]
          /\ httpCalls' = Append(Answered(status), HttpCall(inFlight'))
          /\ settled' = "none"
          /\ UNCHANGED location
     ELSE /\ httpCalls' = Answered(status)
          /\ inFlight' = NoRequest
          /\ settled' = "rejected"
          /\ UNCHANGED <<interceptors, location>>
  /\ UNCHANGED <<viewVars, walkVars, purchaseVars, apiVersion, callerPromise>>

HttpFailure == \E status \in Statuses : HttpError(status)

\* the awaited refresh succeeded: return api(originalRequest)
RefreshAwaitResumes ==
  /\ settled = "fulfilled"
  /\ interceptors # << >>
  /\ Send(interceptors[Len(interceptors)])
  /\ interceptors' = SubSeq(interceptors, 1, Len(interceptors) - 1)
  /\ UNCHANGED <<viewVars, walkVars, purchaseVars, apiVersion, location, callerPromise>>

\* the awaited refresh was rejected: the catch block
RefreshAwaitThrows ==
  /\ settled = "rejected"
  /\ interceptors # << >>
  /\ location' = "/signin"
  /\ interceptors' = SubSeq(interceptors, 1, Len(interceptors) - 1)
  /\ UNCHANGED <<viewVars, walkVars, purchaseVars, apiVersion, inFlight, settled, httpCalls, callerPromise>>

\* no interceptor is waiting: the caller's promise settles
CallerSettles ==
  /\ settled # "none"
  /\ interceptors = << >>
  /\ callerPromise = "pending"
  /\ callerPromise' = settled
  /\ settled' = "none"
  /\ UNCHANGED <<viewVars, walkVars, purchaseVars, apiVersion, inFlight, interceptors, httpCalls, location>>

\* the caller, still on the page, is free to send its next request
CallerMovesOn ==
  /\ callerPromise \in {"fulfilled", "rejected"}
  /\ location # "/signin"
  /\ callerPromise' = "idle"
  /\ httpCalls' = << >>
  /\ UNCHANGED <<viewVars, walkVars, purchaseVars, apiVersion, inFlight, interceptors, settled, location>>

InitApi ==
  /\ query = [isLoading |-> TRUE, isError |-> FALSE, data |-> UNDEFINED]
  /\ searchQuery = << >>
  /\ revision = "R1"
  /\ isMobile = FALSE
  /\ InitView
  /\ pointerAt = Untracked
  /\ page = MyTreeRender(query, searchQuery, UiState)
  /\ apiVersion \in ApiVersions
  /\ ApiIdle
  /\ heap = [a \in HeapAddresses |-> LeafObject] /\ WalkIdle
  /\ PurchaseIdle

NextApi ==
  \/ \E url \in RequestUrls : ApiRequest(url)
  \/ HttpSuccess
  \/ HttpFailure
  \/ RefreshAwaitResumes
  \/ RefreshAwaitThrows
  \/ CallerSettles
  \/ CallerMovesOn

SpecApi == InitApi /\ [][NextApi]_vars

\* ------------------------------------------- the recursions on an object graph
\* the recursive functions of the tree page
Recursions == {"getMaxDepth", "getSubtreeWidth", "renderNode", "traverse"}

\* object graphs: every leftChild / rightChild is null or a TreeNode object,
\* which may be one met before on the way down
Heaps == [HeapAddresses -> [leftChild : HeapAddresses \cup {NULL_REF},
                            rightChild : HeapAddresses \cup {NULL_REF}]]

ROOT_REF == 1

Frame(fn, node, pc) == [fn |-> fn, node |-> node, pc |-> pc]

Top == callStack[Len(callStack)]

\* the running call returns to its caller
Return ==
  /\ callStack' = SubSeq(callStack, 1, Len(callStack) - 1)
  /\ walkStatus' = IF Len(callStack) = 1 THEN "returned" ELSE "running"

\* the running call, moving on to pc, calls fn(node); the engine ends the
\* recursion with RangeError when the stack is full
CallFrom(pc, fn, node) ==
  IF Len(callStack) >= MaxCallDepth
  THEN /\ callStack' = << >>
       /\ walkStatus' = "RangeError"
  ELSE /\ callStack' = Append([callStack EXCEPT ![Len(callStack)].pc = pc], Frame(fn, node, "enter"))
       /\ walkStatus' = "running"

\* the page calls one of the recursions on the root object
WalkStarts(fn) ==
  /\ walkStatus \in {"idle", "returned"}
  /\ callStack' = << Frame(fn, ROOT_REF, "enter") >>
  /\ walkStatus' = "running"
  /\ UNCHANGED <<viewVars, apiVars, purchaseVars, heap>>

\* getMaxDepth, getSubtreeWidth and traverse: return on null (getSubtreeWidth
\* also on a childless node), else recurse into leftChild, then rightChild
PlainStep ==
  LET f == Top
      n == f.node
  IN  /\ f.fn # "renderNode"
      /\ IF f.pc = "enter"
         THEN IF n = NULL_REF THEN Return
              ELSE IF f.fn = "getSubtreeWidth" /\ heap[n] = LeafObject THEN Return
              ELSE CallFrom("left", f.fn, heap[n].leftChild)
         ELSE IF f.pc = "left" THEN CallFrom("right", f.fn, heap[n].rightChild)
         ELSE Return

\* renderNode: a placeholder (null) returns; a node measures both children with
\* getSubtreeWidth, then renders the left slot, then the right slot
RenderStep ==
  LET f == Top
      n == f.node
  IN  /\ f.fn = "renderNode"
      /\ IF f.pc = "enter"
         THEN IF n = NULL_REF THEN Return
              ELSE CallFrom("leftWidth", "getSubtreeWidth", heap[n].leftChild)
         ELSE IF f.pc = "leftWidth" THEN CallFrom("rightWidth", "getSubtreeWidth", heap[n].rightChild)
         ELSE IF f.pc = "rightWidth" THEN CallFrom("left", "renderNode", heap[n].leftChild)
         ELSE IF f.pc = "left" THEN CallFrom("right", "renderNode", heap[n].rightChild)
         ELSE Return

\* the recursion that is running takes its next step
WalkStep ==
  /\ walkStatus = "running"
  /\ PlainStep \/ RenderStep
  /\ UNCHANGED <<viewVars, apiVars, purchaseVars, heap>>

InitWalk ==
  /\ query = [isLoading |-> TRUE, isError |-> FALSE, data |-> UNDEFINED]
  /\ searchQuery = << >>
  /\ revision = "R1"
  /\ isMobile = FALSE
  /\ InitView
  /\ pointerAt = Untracked
  /\ page = MyTreeRender(query, searchQuery, UiState)
  /\ apiVersion = "second" /\ ApiIdle
  /\ heap \in Heaps
  /\ WalkIdle
  /\ PurchaseIdle

NextWalk == (\E fn \in Recursions : WalkStarts(fn)) \/ WalkStep

SpecWalk == InitWalk /\ [][NextWalk]_vars

\* the recursions are synchronous code: a started call keeps running
SpecWalkFair == SpecWalk /\ WF_vars(WalkStep)

\* ------------------------------------------- PackagePurchaseModal
PurchaseVersions == {"first", "second"}

\* the selected package: investmentMin 1, investmentMax MaxAmount
InvestmentMin == 1

InvestmentMax == MaxAmount

\* what the inputs are filled with: whole dollars, also a negative value
AmountInputs == 0 .. MaxAmount

WalletInputs == (0 - 1) .. MaxAmount

\* GET /packages/wallet-rules: the least percentage of a wallet that is used
WalletRules == [w \in Wallets |-> IF w = "F_WALLET" THEN 30 ELSE 0]

\* GET /wallet/user-wallets: the balances
WalletBalances == [w \in Wallets |-> IF w = "BONUS_WALLET" THEN 1 ELSE MaxAmount]

RECURSIVE SumOver(_, _)
\* reduce((sum, x) => sum + x, 0) over the values of f at the keys
SumOver(f, keys) ==
  IF keys = {} THEN 0
  ELSE LET k == CHOOSE k \in keys : TRUE IN f[k] + SumOver(f, keys \ {k})

totalAmount == amount

\* the first version offers an admin buying for a downline member only the bonus wallet
isAdminPurchasingForOther == purchaseVersion = "first" /\ isAdmin /\ purchaseMode = "downline"

availableWallets == IF isAdminPurchasingForOther THEN {"BONUS_WALLET"} ELSE Wallets

\* Math.round((numAmt / totalAmount) * 100): the nearest integer, one half up
RoundPercent(walletAmt, total) == (200 * walletAmt + total) \div (2 * total)

\* currentPct > 0 && currentPct < minPct, with currentPct = walletAmt / totalAmount * 100
BelowMinimum(w) ==
  /\ totalAmount > 0
  /\ walletAmounts[w] > 0
  /\ 100 * walletAmounts[w] < WalletRules[w] * totalAmount

\* the validation effect found an error
HasValidationError ==
  \/ totalAmount <= 0
  \/ totalAmount < InvestmentMin \/ totalAmount > InvestmentMax
  \/ totalAmount > 0 /\ SumOver(walletAmounts,
                                 IF purchaseVersion = "first" THEN availableWallets ELSE Wallets)
                          # totalAmount
  \/ ~isAdminPurchasingForOther /\ \E w \in Wallets : BelowMinimum(w)
  \/ \E w \in Wallets : walletAmounts[w] < 0
  \/ /\ purchaseVersion = "first" \/ purchaseMode = "self"
     /\ \E w \in availableWallets : walletAmounts[w] > WalletBalances[w]
  \/ purchaseMode = "downline" /\ targetMemberId = ""

isValid == ~HasValidationError /\ totalAmount > 0

\* the split handleSubmit builds: a percentage for every wallet with an amount above 0
BuildSplit ==
  [w \in {w \in availableWallets : walletAmounts[w] > 0} |->
     RoundPercent(walletAmounts[w], totalAmount)]

\* onChange of the amount input
SetAmount(value) ==
  /\ payload = NoPayload
  /\ amount # value
  /\ amount' = value
  /\ UNCHANGED <<viewVars, apiVars, walkVars, purchaseVersion, isAdmin, purchaseMode,
                 targetMemberId, walletAmounts, payload>>

handleWalletAmountChange(wallet, value) ==
  /\ payload = NoPayload
  /\ walletAmounts[wallet] # value
  /\ walletAmounts' = [walletAmounts EXCEPT ![wallet] = value]
  /\ UNCHANGED <<viewVars, apiVars, walkVars, purchaseVersion, isAdmin, purchaseMode,
                 targetMemberId, amount, payload>>

\* onClick of the purchase button
handleSubmit ==
  /\ payload = NoPayload
  /\ isValid
  /\ payload' = [sent |-> TRUE, amount |-> amount, split |-> BuildSplit,
                 userId |-> IF purchaseMode = "downline" THEN targetMemberId ELSE ""]
  /\ UNCHANGED <<viewVars, apiVars, walkVars, purchaseVersion, isAdmin, purchaseMode,
                 targetMemberId, amount, walletAmounts>>

\* the modal (either version) opened for the user's own purchase or for a
\* downline member, by an admin or not
InitPurchase ==
  /\ query = [isLoading |-> TRUE, isError |-> FALSE, data |-> UNDEFINED]
  /\ searchQuery = << >>
  /\ revision = "R1"
  /\ isMobile = FALSE
  /\ InitView
  /\ pointerAt = Untracked
  /\ page = MyTreeRender(query, searchQuery, UiState)
  /\ apiVersion = "second" /\ ApiIdle
  /\ heap = [a \in HeapAddresses |-> LeafObject] /\ WalkIdle
  /\ purchaseVersion \in PurchaseVersions
  /\ isAdmin \in BOOLEAN
  /\ purchaseMode \in {"self", "downline"}
  /\ targetMemberId \in {"", "M1"}
  /\ purchaseMode = "self" => (targetMemberId = "" /\ ~isAdmin)
  /\ ModalOpened

NextPurchase ==
  \/ \E value \in AmountInputs : SetAmount(value)
  \/ \E wallet \in Wallets, value \in WalletInputs : handleWalletAmountChange(wallet, value)
  \/ handleSubmit

SpecPurchase == InitPurchase /\ [][NextPurchase]_vars

\* ------------------------------------------------- vocabulary of the claims
\* a materialized TreeNode (src/types/tree.ts): every child is null or a TreeNode
RECURSIVE IsTreeNode(_)
IsTreeNode(v) ==
  /\ {"id", "memberId", "email", "leftChild", "rightChild"} \subseteq DOMAIN v
  /\ v.leftChild = NULL \/ IsTreeNode(v.leftChild)
  /\ v.rightChild = NULL \/ IsTreeNode(v.rightChild)

RECURSIVE SubNodes(_)
SubNodes(t) ==
  IF Falsy(t) THEN {}
  ELSE {t} \cup SubNodes(Prop(t, "leftChild")) \cup SubNodes(Prop(t, "rightChild"))

\* the page shows the tree view for a materialized tree
TreeShown == page.kind = "BinaryTreeView" /\ page.view.kind = "Tree" /\ IsTreeNode(page.rootNode)

Sides == {"LEFT", "RIGHT"}

ChildAt(n, side) == IF side = "LEFT" THEN n.leftChild ELSE n.rightChild

\* the box rendered for the real node with this id
CardBox(view, id) ==
  view.elements[CHOOSE i \in DOMAIN view.elements :
                  view.elements[i].kind = "TreeNodeCard" /\ view.elements[i].nodeId = id]

HasCardBox(view, id) ==
  \E i \in DOMAIN view.elements : view.elements[i].kind = "TreeNodeCard" /\ view.elements[i].nodeId = id

HasAddBox(view, parentId, side) ==
  \E i \in DOMAIN view.elements :
    /\ view.elements[i].kind = "AddUserNode"
    /\ view.elements[i].parentId = parentId
    /\ view.elements[i].position = side

AddBox(view, parentId, side) ==
  view.elements[CHOOSE i \in DOMAIN view.elements :
                  /\ view.elements[i].kind = "AddUserNode"
                  /\ view.elements[i].parentId = parentId
                  /\ view.elements[i].position = side]

HasSlotBox(view, n, side) ==
  IF ChildAt(n, side) = NULL THEN HasAddBox(view, n.id, side) ELSE HasCardBox(view, ChildAt(n, side).id)

\* the box rendered in a child slot of n: the child's card, or the add-user placeholder
SlotBox(view, n, side) ==
  IF ChildAt(n, side) = NULL THEN AddBox(view, n.id, side) ELSE CardBox(view, ChildAt(n, side).id)

BoxCenterX(box) == box.left + Half(NODE_WIDTH)

\* width of the band of a child slot, an empty slot counting as one NODE_WIDTH
SlotWidth(n, side) == getSubtreeWidth(ChildAt(n, side), ChildAt(n, side) = NULL)

ConnectorPath(view, n, side) ==
  view.connectors[CHOOSE i \in DOMAIN view.connectors :
                    /\ view.connectors[i].nodeId = n.id
                    /\ view.connectors[i].side = (IF side = "LEFT" THEN "left" ELSE "right")].path

IsLeaf(n) == n.leftChild = NULL /\ n.rightChild = NULL

\* ------------------------------------------------------------------ claims
\* C1: Non-overlap. For every materialized tree shown and every real node in it,
\* the horizontal ranges of its left and right child slots (slot centre +/- half
\* the slot's subtree width) do not intersect: the left range ends strictly left
\* of where the right range starts.
C1_NonOverlap ==
  TreeShown =>
    \A n \in SubNodes(page.rootNode) :
      /\ HasSlotBox(page.view, n, "LEFT")
      /\ HasSlotBox(page.view, n, "RIGHT")
      /\ BoxCenterX(SlotBox(page.view, n, "LEFT")) + Half(SlotWidth(n, "LEFT"))
           < BoxCenterX(SlotBox(page.view, n, "RIGHT")) - Half(SlotWidth(n, "RIGHT"))

\* a tree is shown in which some node has a real subtree of several nodes on one
\* side and an empty slot on the other, and some node has two real children
C1_Witness ==
  /\ TreeShown
  /\ \E n \in SubNodes(page.rootNode) :
       n.leftChild # NULL /\ ~IsLeaf(n.leftChild) /\ n.rightChild = NULL
  /\ \E n \in SubNodes(page.rootNode) : n.leftChild # NULL /\ n.rightChild # NULL

\* C2: Placeholder symmetry. getSubtreeWidth of a node with both children absent
\* is 2 * NODE_WIDTH + HORIZONTAL_SPACING = 216, for the root and for nodes deeper
\* in the tree, with the reserve flag set or not.
C2_LeafWidth ==
  (page.kind = "BinaryTreeView" /\ IsTreeNode(page.rootNode)) =>
    \A n \in SubNodes(page.rootNode) :
      IsLeaf(n) =>
        \A showAddPlaceholder \in BOOLEAN :
          /\ getSubtreeWidth(n, showAddPlaceholder) = 2 * NODE_WIDTH + HORIZONTAL_SPACING
          /\ getSubtreeWidth(n, showAddPlaceholder) = 216

\* a tree is shown that has a leaf below the root and a leaf that is a sibling of an empty slot
C2_Witness ==
  /\ TreeShown
  /\ \E n \in SubNodes(page.rootNode) :
       /\ n.leftChild # NULL /\ IsLeaf(n.leftChild) /\ n.rightChild = NULL
       /\ n # page.rootNode

\* the scenario of the spec: a root with one leaf left child and no right child
ScenarioTree == TreeNode(1, TreeNode(2, NULL, NULL), NULL)

\* C3: Total width. For a materialized tree with n real nodes the width computed
\* for the root is (n+1) * NODE_WIDTH + n * HORIZONTAL_SPACING; for the scenario
\* tree it is 332 and the right slot of the root is one NODE_WIDTH wide, its
\* placeholder box filling the band that ends at the right edge of the tree.
C3_TotalWidth ==
  TreeShown =>
    LET n == countNodes(page.rootNode)
        treeWidth == page.view.width - CANVAS_MARGIN
    IN  /\ treeWidth = (n + 1) * NODE_WIDTH + n * HORIZONTAL_SPACING
        /\ page.rootNode = ScenarioTree =>
             /\ treeWidth = 332
             /\ treeWidth = 3 * NODE_WIDTH + 2 * HORIZONTAL_SPACING
             /\ SlotWidth(page.rootNode, "RIGHT") = NODE_WIDTH
             /\ AddBox(page.view, 1, "RIGHT").left + NODE_WIDTH = START_MARGIN + treeWidth
             /\ BoxCenterX(CardBox(page.view, 2)) < BoxCenterX(CardBox(page.view, 1))

C3_Witness == TreeShown /\ page.rootNode = ScenarioTree

\* C4: Connector endpoints. For every real node of a materialized tree and each
\* of its two child slots, the connector starts at the parent's bottom-centre and
\* ends at the top-centre of the box placed in that slot.
C4_ConnectorEndpoints ==
  TreeShown =>
    \A n \in SubNodes(page.rootNode) : \A side \in Sides :
      LET parent == CardBox(page.view, n.id)
          child == SlotBox(page.view, n, side)
          path == ConnectorPath(page.view, n, side)
      IN  /\ path[1] = <<"M", BoxCenterX(parent), parent.top + NODE_HEIGHT>>
          /\ path[Len(path)] = <<"L", BoxCenterX(child), child.top>>

C4_Witness ==
  /\ TreeShown
  /\ \E n \in SubNodes(page.rootNode) : n.leftChild = NULL /\ n.rightChild # NULL
  /\ Len(page.view.connectors) >= 6

\* two characters are equal up to case
SameLetter(a, b) == LowerChar(a) = LowerChar(b)

\* text contains pattern at some offset, compared case-insensitively
ContainsIgnoringCase(text, pattern) ==
  \E off \in 0..(Len(text) - Len(pattern)) :
    \A j \in 1..Len(pattern) : SameLetter(text[off + j], pattern[j])

\* the ids the search is expected to highlight
ExpectedMatches(tree, q) ==
  { IdOf(n) : n \in { m \in SubNodes(tree) :
      \/ "memberId" \in DOMAIN m /\ ContainsIgnoringCase(m.memberId, trim(q))
      \/ "email" \in DOMAIN m /\ ContainsIgnoringCase(m.email, trim(q)) } }

\* C5: Search correctness. Whenever the page has tree data and the query is
\* non-empty after trimming, the highlighted ids are exactly the ids of the nodes
\* whose memberId or email contains the trimmed query, ignoring case.
C5_SearchCorrect ==
  (page.kind = "BinaryTreeView" /\ Truthy(query.data) /\ trim(searchQuery) # << >>) =>
    page.highlightedNodeIds = ExpectedMatches(query.data, searchQuery)

\* a query with an upper-case letter and surrounding whitespace that matches some
\* nodes of a materialized tree and not others
C5_Witness ==
  /\ TreeShown
  /\ searchQuery # trim(searchQuery)
  /\ trim(searchQuery) # toLowerCase(trim(searchQuery))
  /\ page.highlightedNodeIds # {}
  /\ page.highlightedNodeIds # { n.id : n \in SubNodes(page.rootNode) }

\* C6: An empty or whitespace-only query highlights nothing, for every tree.
C6_EmptyQueryNoMatch ==
  (page.kind = "BinaryTreeView" /\ trim(searchQuery) = << >>) => page.highlightedNodeIds = {}

\* a whitespace-only (non-empty) query over a materialized tree of several nodes
C6_Witness ==
  /\ TreeShown
  /\ countNodes(page.rootNode) >= 2
  /\ searchQuery # << >>
  /\ trim(searchQuery) = << >>

PendingTimers(kinds) == { t \in timers : t.kind \in kinds }

\* C7: After any sequence of pointer, popover, touch and click events and timer
\* firings at most one hover show/hide timer and at most one long-press timer
\* are pending, and every pending timer is the one its ref holds (a superseded
\* timer was cancelled and cannot fire).
C7_TimerExclusive ==
  /\ Cardinality(PendingTimers(HoverKinds)) <= 1
  /\ Cardinality(PendingTimers({"longPress"})) <= 1
  /\ \A t \in PendingTimers(HoverKinds) : t.id = hoverTimeoutRef
  /\ \A t \in PendingTimers({"longPress"}) : t.id = longPressTimeoutRef

\* C8: Once BinaryTreeView is unmounted no hover-show, hover-hide or long-press
\* callback runs and no state setter is called or context menu dispatched.
C8_UnmountCancelsTimers ==
  page.kind = "Unmounted" => afterTeardown = {}

\* C9: With rootNode null the tree view renders the "No tree data available"
\* state, places no element or connector and calls none of the layout functions.
C9_NullRootNoLayout ==
  (page.kind = "BinaryTreeView" /\ page.rootNode = NULL) =>
    /\ page.view.kind = "NoTreeData"
    /\ page.view.invoked = {}
    /\ page.view.elements = << >>
    /\ page.view.connectors = << >>

C9_Witness == page.kind = "BinaryTreeView" /\ page.rootNode = NULL /\ page.view.kind = "NoTreeData"

\* C10: The tree view is handed null or a materialized TreeNode tree, also after
\* a failed tree request.
C10_RootNullOrTree ==
  page.kind = "BinaryTreeView" => (page.rootNode = NULL \/ IsTreeNode(page.rootNode))

\* C11: Missing DOM anchor. The popover is shown for a node only with the
\* position a successful getNodePosition lookup returned for it, a node becomes
\* the tapped node only after a successful lookup, and a hover-show callback
\* whose lookup returns null leaves hoverState and tappedNodeId unchanged.
C11_MissingAnchorSkips ==
  [][ /\ (hoverState' # hoverState /\ hoverState'.node # NO_ID) =>
           LET pos == getNodePosition(hoverState'.node)
           IN  /\ pos.found
               /\ hoverState'.position = [x |-> pos.x, y |-> pos.y]
               /\ hoverState'.nodeHeight = pos.height
      /\ (tappedNodeId' # tappedNodeId /\ tappedNodeId' # NO_ID) =>
           getNodePosition(tappedNodeId').found
      /\ \A t \in PendingTimers({"hoverShow"}) :
           (timers' = timers \ {t} /\ UNCHANGED refVars /\ ~getNodePosition(t.node).found) =>
             UNCHANGED <<hoverState, tappedNodeId>>
    ]_vars

\* a hover-show callback ran when the container was gone: its lookup returned null
\* and it called no state setter, the popover staying hidden
C11_Witness ==
  /\ page.kind = "Unmounted"
  /\ afterTeardown = {"callback"}
  /\ hoverState = NoHover
  /\ tappedNodeId = NO_ID

\* what C12 asks of one step of the view on desktop
HoverIntentStep ==
      ~isMobile =>
        /\ \A node \in UINodeIds :
             handleHoverStart(node) =>
               /\ Cardinality({ t \in timers' : t.kind = "hoverShow" }) = 1
               /\ \A t \in timers' :
                    t.kind = "hoverShow" => (t.node = node /\ t.id = hoverTimeoutRef')
        /\ handleHoverEnd => { t \in timers' : t.kind = "hoverShow" } = {}
        /\ (hoverState'.node # hoverState.node /\ hoverState'.node # NO_ID) =>
             \E t \in timers :
               t.kind = "hoverShow" /\ t.node = hoverState'.node /\ timers' = timers \ {t}

HoverHideStep ==
  (~isMobile /\ hoverState.node # NO_ID) =>
    /\ handleHoverEnd =>
         /\ hoverState' = hoverState
         /\ \E t \in timers' : t.kind = "hoverHide" /\ t.id = hoverTimeoutRef'
    /\ (handleHoverStart(hoverState.node) \/ handlePopupMouseEnter) =>
         /\ hoverState' = hoverState
         /\ { t \in timers' : t.kind = "hoverHide" } = {}

TapLogicRuns(node) ==
  isMobile /\ handleTouchEnd(node) /\ (revision = "R1" \/ ~longPressTriggeredRef)

ContextMenuCalls(node) ==
  { i \in DOMAIN calls' : calls'[i].fn = "contextmenu" /\ calls'[i].node = node }

\* what C14 asks of one step of the view
MobileTapStep ==
  \A node \in UINodeIds :
    TapLogicRuns(node) =>
      IF tappedNodeId = node
      THEN /\ tappedNodeId' = NO_ID
           /\ hoverState' = NoHover
           /\ ContextMenuCalls(node) # {}
      ELSE /\ hoverState'.node = node
           /\ tappedNodeId' = node
           /\ calls' = << >>

\* C14: Mobile tap sequence. A tap on a node that is not the tapped node (none
\* tapped, or another one) shows the popover for it and makes it the tapped node
\* without opening a context menu; a tap on the tapped node clears tappedNodeId,
\* hides the popover and dispatches the context menu for that node.
C14_MobileTap == [][MobileTapStep]_vars

\* what C15 asks of one step of the mounted view with long-press handling, on mobile
LongPressStep ==
  (revision = "R2" /\ isMobile /\ Mounted) =>
    /\ \A node \in UINodeIds :
         handleTouchStart(node) =>
           /\ ~longPressTriggeredRef'
           /\ Cardinality({ t \in timers' : t.kind = "longPress" }) = 1
           /\ \A t \in timers' :
                t.kind = "longPress" => (t.node = node /\ t.id = longPressTimeoutRef')
    /\ \A t \in PendingTimers({"longPress"}) :
         (LongPressTimerFires /\ timers' = timers \ {t}) =>
           /\ longPressTriggeredRef'
           /\ calls' = << Call("contextmenu", t.node, << >>, "touch") >>
           /\ contextMenu' = [nodeId |-> t.node, at |-> "touch"]
           /\ tappedNodeId' = NO_ID
           /\ hoverState' = NoHover
    /\ \A node \in UINodeIds :
         handleTouchEnd(node) =>
           /\ { t \in timers' : t.kind = "longPress" } = {}
           /\ ~longPressTriggeredRef'
           /\ IF longPressTriggeredRef
              THEN UNCHANGED <<hoverState, tappedNodeId, contextMenu>> /\ calls' = << >>
              ELSE tappedNodeId' = (IF tappedNodeId = node THEN NO_ID ELSE node)
    /\ longPressTriggeredRef' => { t \in timers' : t.kind = "longPress" } = {}

ConfirmedTapStep ==
  (revision = "R2" /\ isMobile) =>
    \A node \in UINodeIds :
      (TapLogicRuns(node) /\ tappedNodeId = node) =>
        /\ selectedNodeId' = node
        /\ ContextMenuCalls(node) # {}

\* C16: On mobile the second tap on the tapped node makes it the selected node
\* (selectedNodeId = its id) and dispatches the context menu for it.
C16_ConfirmedTapSelects == [][ConfirmedTapStep]_vars

\* what C17 asks of one step of the view on desktop
DesktopClickStep ==
  ~isMobile =>
    \A node \in UINodeIds :
      handleNodeClick(node) =>
        /\ selectedNodeId' = node
        /\ Cardinality({ i \in DOMAIN calls' : calls'[i].fn = "onNodeClick" }) = 1
        /\ \A i \in DOMAIN calls' : calls'[i].fn = "onNodeClick" => calls'[i].node = node
        /\ \E i \in DOMAIN calls' : calls'[i] = Call("contextmenu", node, << >>, "pointer")
        /\ contextMenu' = [nodeId |-> node, at |-> "pointer"]

\* C17: A desktop click on a node selects it, invokes onNodeClick exactly once,
\* with that node, and dispatches the context menu for it at the click point.
C17_DesktopClick == [][DesktopClickStep]_vars

\* what C18 asks of one step of the view whose click handler clears the popover
ClickClearsStep ==
  revision = "R2" =>
    \A node \in UINodeIds :
      handleNodeClick(node) =>
        /\ hoverState'.node = NO_ID
        /\ tappedNodeId' = NO_ID
        /\ { t \in timers' : t.kind = "hoverShow" } = {}

\* C18: A click on a node leaves hoverState.node and tappedNodeId null and no
\* hover-show pending, so no popover appears again before a new pointer-enter or
\* tap, also when a hover-show was pending at the moment of the click.
C18_ClickClearsHover == [][ClickClearsStep]_vars

\* the add-user placeholders rendered for a slot
AddBoxes(view, parentId, side) ==
  { i \in DOMAIN view.elements :
      /\ view.elements[i].kind = "AddUserNode"
      /\ view.elements[i].parentId = parentId
      /\ view.elements[i].position = side }

\* C19: Add-user slots. In the view of a materialized tree every empty child
\* slot of a real node has exactly one placeholder, one row below its parent,
\* whose onClick calls onAddUser with the parent's memberId and the slot's side;
\* a slot holding a real child has none; and every placeholder belongs to a slot
\* of a real node, so none hangs below a placeholder.
C19_AddUserSlots ==
  TreeShown =>
    /\ \A n \in SubNodes(page.rootNode) : \A side \in Sides :
         IF ChildAt(n, side) = NULL
         THEN /\ Cardinality(AddBoxes(page.view, n.id, side)) = 1
              /\ \A i \in AddBoxes(page.view, n.id, side) :
                   /\ AddUserOnClick(page.view.elements[i]) = Call("onAddUser", NO_ID, n.memberId, side)
                   /\ page.view.elements[i].top
                        = CardBox(page.view, n.id).top + NODE_HEIGHT + VERTICAL_SPACING
         ELSE AddBoxes(page.view, n.id, side) = {}
    /\ \A i \in DOMAIN page.view.elements :
         page.view.elements[i].kind = "AddUserNode" =>
           \E n \in SubNodes(page.rootNode) :
             /\ n.id = page.view.elements[i].parentId
             /\ ChildAt(n, page.view.elements[i].position) = NULL
    /\ Cardinality({ i \in DOMAIN page.view.elements : page.view.elements[i].kind = "AddUserNode" })
         = countNodes(page.rootNode) + 1

\* a tree is shown with a node that has a real child on one side only and a leaf
\* with two empty slots, at least three levels deep
C19_Witness ==
  /\ TreeShown
  /\ \E n \in SubNodes(page.rootNode) : n.leftChild # NULL /\ n.rightChild = NULL
  /\ \E n \in SubNodes(page.rootNode) : n.leftChild = NULL /\ n.rightChild # NULL
  /\ \E n \in SubNodes(page.rootNode) : IsLeaf(n) /\ n # page.rootNode
  /\ getMaxDepth(page.rootNode, 0) >= 2

\* the coordinates of a rendered view: canvas size, every box, every connector
Layout(view) ==
  [width |-> view.width, height |-> view.height,
   boxes |-> [i \in DOMAIN view.elements |->
                <<view.elements[i].kind, view.elements[i].left, view.elements[i].top>>],
   connectors |-> [i \in DOMAIN view.connectors |-> view.connectors[i].path]]

\* a first render of the tree: nothing selected, hovered or highlighted
FreshRender(rootNode) ==
  BinaryTreeViewRender(rootNode,
    [selectedNodeId |-> NO_ID, highlightedNodeIds |-> {}, hoverState |-> NoHover])

\* C20: Determinism. Whatever was hovered, tapped, long-pressed, clicked or
\* searched before, the view on screen has the coordinates of a first render of
\* the same tree: box positions, connector paths, canvas width and height.
C20_LayoutDeterministic ==
  Mounted => Layout(page.view) = Layout(FreshRender(page.rootNode))

\* a render with a node selected, a popover shown, a node highlighted and a
\* context menu dispatched before
C20_Witness ==
  /\ Mounted
  /\ selectedNodeId # NO_ID
  /\ hoverState.node # NO_ID
  /\ page.highlightedNodeIds # {}
  /\ contextMenu # NoMenu

\* ------------------------------------------- claims about the api client
CallsTo(url) == {i \in DOMAIN httpCalls : httpCalls[i].url = url}

Resends(url) == {i \in CallsTo(url) : httpCalls[i].retry}

LastCall == httpCalls[Len(httpCalls)]

\* a request of a caller goes out at most twice, at most once of them as a retry
RetryOnceCount ==
  \A url \in RequestUrls : Cardinality(CallsTo(url)) <= 2 /\ Cardinality(Resends(url)) <= 1

\* a request is re-sent only by the interceptor that marked it, right after the
\* refresh it awaited succeeded; a marked request that fails is rejected with no
\* further call
RetryOnceStep ==
  /\ RefreshAwaitResumes =>
       /\ LastCall.url = REFRESH_URL /\ LastCall.status = 200
       /\ inFlight'.retry
       /\ inFlight' = interceptors[Len(interceptors)]
  /\ (inFlight' # inFlight /\ inFlight'.retry) => RefreshAwaitResumes
  /\ \A status \in Statuses :
       (HttpError(status) /\ inFlight.retry /\ ~IncludesAuthRefresh(inFlight.url)) =>
         /\ httpCalls' = Answered(status)
         /\ settled' = "rejected"
         /\ UNCHANGED <<interceptors, location>>

\* C21: A request sent through the api client that fails with 401 is re-sent by
\* the response interceptor at most once, after the POST /auth/refresh the
\* interceptor awaited; when the re-sent request fails again (with 401 or any
\* error) it is rejected to the caller with no further refresh and no retry.
C21_RetryOnce == []RetryOnceCount /\ [][RetryOnceStep]_vars

C21_Witness ==
  /\ Len(httpCalls) = 3
  /\ httpCalls[1].status = 401 /\ ~httpCalls[1].retry
  /\ httpCalls[2].url = REFRESH_URL /\ httpCalls[2].status = 200
  /\ httpCalls[3].url = httpCalls[1].url /\ httpCalls[3].retry /\ httpCalls[3].status = 401
  /\ callerPromise = "rejected"

RefreshFailed == \E i \in CallsTo(REFRESH_URL) : httpCalls[i].status \notin {0, 200}

RefreshNotRetriedStep ==
  \A status \in Statuses :
    (HttpError(status) /\ IncludesAuthRefresh(inFlight.url)) =>
      /\ httpCalls' = Answered(status)
      /\ settled' = "rejected"

\* C22: When POST /auth/refresh fails, with 401 or any other status, the
\* interceptor sends nothing more (no second refresh, no retry), the location is
\* set to /signin and the caller's promise is rejected; a caller's request leads
\* to at most three HTTP calls (the request, one refresh, one retry).
C22_RefreshNeverRetried ==
  /\ [][RefreshNotRetriedStep]_vars
  /\ []((RefreshFailed /\ callerPromise # "pending") =>
          (callerPromise = "rejected" /\ location = "/signin"))
  /\ [](Len(httpCalls) <= 3)

\* ------------------------------------------- claims about the recursions
RECURSIVE ReachableFrom(_, _)
\* the objects reached from the objects of seen in at most fuel more steps
ReachableFrom(seen, fuel) ==
  IF fuel = 0 THEN seen
  ELSE ReachableFrom(seen \cup {heap[a].leftChild : a \in seen \ {NULL_REF}}
                          \cup {heap[a].rightChild : a \in seen \ {NULL_REF}}, fuel - 1)

Descendants(a) ==
  ReachableFrom({heap[a].leftChild, heap[a].rightChild}, Cardinality(HeapAddresses)) \ {NULL_REF}

\* some object under the root is reachable from itself
SelfReachable == \E a \in Descendants(ROOT_REF) \cup {ROOT_REF} : a \in Descendants(a)

\* C23: Every call of getSubtreeWidth, getMaxDepth, renderNode or
\* findMatchingNodeIds' traverse on a present tree returns, also on a malformed
\* tree in which a node is reachable from itself.
C23_RecursionsTerminate == (walkStatus = "running") ~> (walkStatus = "returned")

\* ------------------------------------------- claims about the interaction (2)
\* the state of BinaryTreeView an event handler can change
HandlerState == <<selectedNodeId, hoverState, tappedNodeId, refVars, timers, contextMenu>>

PlatformExclusiveStep ==
  /\ ~isMobile =>
       \A node \in UINodeIds :
         (handleTouchStart(node) \/ handleTouchEnd(node)) => UNCHANGED HandlerState
  /\ isMobile =>
       \A node \in UINodeIds :
         (handleHoverStart(node) \/ handleHoverEnd) =>
           UNCHANGED <<timers, hoverTimeoutRef, hoverState>>
  /\ ~isMobile' => tappedNodeId' = NO_ID

\* C24: On a desktop (isMobile false) touch-start, touch-end and the tap logic
\* change no state and tappedNodeId stays null; on a mobile device (isMobile
\* true) pointer-enter and pointer-leave on a node card schedule no timer and
\* leave hoverState as it is.
C24_PlatformExclusive == [][PlatformExclusiveStep]_vars

\* the desktop popover is open, opened by hover
C24_Witness ==
  /\ ~isMobile
  /\ hoverState.node # NO_ID
  /\ tappedNodeId = NO_ID

\* ------------------------------------------- claims about the layout (2)
\* the horizontal band of the given width centred on centerX
BandAt(centerX, width) == [lo |-> centerX - Half(width), hi |-> centerX + Half(width)]

Within(inner, outer) == outer.lo <= inner.lo /\ inner.hi <= outer.hi

BoxBand(box) == [lo |-> box.left, hi |-> box.left + NODE_WIDTH]

\* the band reserved for the subtree of the real node n
NodeBand(view, n) == BandAt(BoxCenterX(CardBox(view, n.id)), getSubtreeWidth(n, FALSE))

\* the band reserved for a child slot of n
SlotBand(view, n, side) == BandAt(BoxCenterX(SlotBox(view, n, side)), SlotWidth(n, side))

Distance(a, b) == IF a >= b THEN a - b ELSE b - a

\* C25: In the view of a well-formed tree any two boxes of the same row (cards
\* or placeholders, siblings or cousins) are at least HORIZONTAL_SPACING apart,
\* so they do not overlap; every box lies inside the band of its own subtree and
\* the band of every child slot lies inside the band of its parent.
C25_RowsDoNotOverlap ==
  TreeShown =>
    /\ \A i, j \in DOMAIN page.view.elements :
         (i # j /\ page.view.elements[i].top = page.view.elements[j].top) =>
           Distance(page.view.elements[i].left, page.view.elements[j].left)
             >= NODE_WIDTH + HORIZONTAL_SPACING
    /\ \A n \in SubNodes(page.rootNode) :
         /\ HasCardBox(page.view, n.id)
         /\ Within(BoxBand(CardBox(page.view, n.id)), NodeBand(page.view, n))
         /\ \A side \in Sides :
              /\ HasSlotBox(page.view, n, side)
              /\ Within(BoxBand(SlotBox(page.view, n, side)), SlotBand(page.view, n, side))
              /\ Within(SlotBand(page.view, n, side), NodeBand(page.view, n))

\* both children of the root have a child of their own: the third row holds
\* boxes of two different subtrees
C25_Witness ==
  /\ TreeShown
  /\ page.rootNode.leftChild # NULL /\ page.rootNode.rightChild # NULL
  /\ ~IsLeaf(page.rootNode.leftChild) /\ ~IsLeaf(page.rootNode.rightChild)

\* C26: The canvas is getSubtreeWidth(root) + 80 wide and
\* (getMaxDepth(root) + 1) * (NODE_HEIGHT + VERTICAL_SPACING) + 80 high, the root
\* card is centred on x = getSubtreeWidth(root) / 2 + 40 with its top at 20, and
\* every card and placeholder box (NODE_WIDTH by NODE_HEIGHT) lies inside the
\* canvas, the placeholders below the deepest real nodes included.
C26_CanvasContains ==
  TreeShown =>
    /\ page.view.width = getSubtreeWidth(page.rootNode, TRUE) + CANVAS_MARGIN
    /\ page.view.height =
         (getMaxDepth(page.rootNode, 0) + 1) * (NODE_HEIGHT + VERTICAL_SPACING) + CANVAS_MARGIN
    /\ HasCardBox(page.view, page.rootNode.id)
    /\ BoxCenterX(CardBox(page.view, page.rootNode.id))
         = Half(getSubtreeWidth(page.rootNode, TRUE)) + START_MARGIN
    /\ CardBox(page.view, page.rootNode.id).top = START_Y
    /\ \A i \in DOMAIN page.view.elements :
         LET box == page.view.elements[i]
         IN  /\ 0 <= box.left /\ box.left + NODE_WIDTH <= page.view.width
             /\ 0 <= box.top /\ box.top + NODE_HEIGHT <= page.view.height

\* a tree of three rows of real nodes is shown, with the placeholder row below
\* its deepest node
C26_Witness ==
  /\ TreeShown
  /\ getMaxDepth(page.rootNode, 0) >= 3
  /\ \E i \in DOMAIN page.view.elements :
       /\ page.view.elements[i].kind = "AddUserNode"
       /\ page.view.elements[i].top =
            START_Y + getMaxDepth(page.rootNode, 0) * (NODE_HEIGHT + VERTICAL_SPACING)

\* C27: For every real node of a well-formed tree the centre of the left child
\* slot is left of the node's centre and the centre of the right child slot is
\* right of it, each by at least (NODE_WIDTH + HORIZONTAL_SPACING) / 2 = 58, more
\* than twice the connector radius; both connectors of the node are the bent
\* path (six commands), never the straight line.
C27_ChildrenNeverAligned ==
  TreeShown =>
    \A n \in SubNodes(page.rootNode) :
      LET x == BoxCenterX(CardBox(page.view, n.id))
          offset == Half(NODE_WIDTH + HORIZONTAL_SPACING)
      IN  /\ offset = 58 /\ offset > 2 * CONNECTOR_RADIUS
          /\ HasSlotBox(page.view, n, "LEFT") /\ HasSlotBox(page.view, n, "RIGHT")
          /\ BoxCenterX(SlotBox(page.view, n, "LEFT")) <= x - offset
          /\ BoxCenterX(SlotBox(page.view, n, "RIGHT")) >= x + offset
          /\ \A side \in Sides : Len(ConnectorPath(page.view, n, side)) = 6

\* a node with two empty slots is shown: its slots are the closest to it
C27_Witness ==
  /\ TreeShown
  /\ \E n \in SubNodes(page.rootNode) :
       /\ IsLeaf(n)
       /\ BoxCenterX(SlotBox(page.view, n, "LEFT"))
            = BoxCenterX(CardBox(page.view, n.id)) - Half(NODE_WIDTH + HORIZONTAL_SPACING)
       /\ Len(ConnectorPath(page.view, n, "RIGHT")) = 6

\* C28: In every reachable state of the view tappedNodeId is non-null only while
\* the popover shows that same node: tappedNodeId = k implies hoverState.node = k.
C28_TappedImpliesShown ==
  tappedNodeId # NO_ID => hoverState.node = tappedNodeId

\* the popover is shown, nothing is pending that would hide it, and the pointer
\* is over neither a node nor the popover
PopoverLeftBehind ==
  /\ Mounted
  /\ hoverState.node # NO_ID
  /\ PendingTimers(HoverKinds) = {}
  /\ PointerIsOutside

\* C29: On a desktop, once the pointer has left the nodes and the popover and
\* enters none of them again, the popover is eventually hidden and stays hidden
\* (pending timers eventually fire); and in no reachable state is the popover
\* shown with no timer pending while the pointer is outside.
C29_PopoverEventuallyHidden ==
  /\ []~PopoverLeftBehind
  /\ <>[](pointerAt = Outside) => <>[](hoverState.node = NO_ID)

\* the popover is shown and the pointer has just left it or its node
C29_Witness ==
  /\ pointerAt = Outside
  /\ hoverState.node # NO_ID
  /\ \E t \in timers : t.kind = "hoverHide"

\* ------------------------------------------- claims about the purchase modal
\* C30: Whenever handleSubmit sends a purchase (the validation passed: the
\* wallet amounts add up to the package amount), the percentages of
\* payload.split, Math.round(walletAmount / totalAmount * 100) for each wallet
\* with an amount above 0, add up to exactly 100.
C30_SplitSumsTo100 ==
  payload.sent => SumOver(payload.split, DOMAIN payload.split) = 100
====
